---------------------------- MODULE Spec2Model ----------------------------
(***************************************************************************)
(* A model of the PSP patient-journey lakehouse scripts:                   *)
(*   - pipelines/bronze/ingest_to_bronze.py  (bronze ingestion)            *)
(*   - scripts/utils/helpers.py              (data-quality injector)       *)
(*   - scripts/generators/*.py               (table generators)            *)
(*   - scripts/generate_data.py              (orchestrator)                *)
(*                                                                         *)
(* A DataFrame is a sequence of rows; a row is a function from column      *)
(* names to cells.  Timestamps are whole seconds (integers); NaT is the    *)
(* null timestamp and None the null of every other column.                 *)
(***************************************************************************)
EXTENDS Integers, Sequences, FiniteSets, TLC

VARIABLES
    raw,            \* data/raw_samples/<source>.parquet : NoFile or a table
    bronze,         \* data/bronze/<source>.parquet      : NoFile or a table
    clock,          \* the wall clock read by datetime.now()
    verification,   \* branch taken by the last verification of each source
    runs,           \* number of ingestion runs started so far
    inj,            \* one call of inject_data_quality_issues: arguments, draws, result
    twin,           \* two calls of one generator with the same arguments
    config,             \* the loaded data_generation_config.yaml
    gen_now,            \* datetime.now() while the generators run (seconds)
    enrollments_df,     \* generate_data.main: the five generated tables
    cases_df,
    status_history_df,
    shipments_df,
    claims_df,
    built,              \* the table the last generator built, before injection
    shipped_enrollments, \* the rows generate_shipments sampled, in sample order
    output,             \* output.base_dir/<source>.parquet : NoFile or a table
    pc                  \* the generator generate_data.main calls next

bronzeVars == <<raw, bronze, clock, verification, runs>>
injVars == <<inj, twin>>
genVars == <<config, gen_now, enrollments_df, cases_df, status_history_df,
             shipments_df, claims_df, built, shipped_enrollments, output, pc>>

vars == <<bronzeVars, injVars, genVars>>

---------------------------------------------------------------------------
(* Bounds of the model *)

\* largest number of rows of a raw file
MaxRows == 2
\* largest number of ingestion runs (main or a single source) in a behaviour
MaxRuns == 2
\* largest number of rows of a table handed to the injector on its own
MaxInjectRows == 2
\* largest scales[active_scale].enrollments
MaxEnrollments == 2
\* largest number of cases handed to generate_status_history on its own
MaxStatusCases == 1
\* largest number of enrollments handed to generate_shipments on its own
MaxPatients == 1
\* largest scales[active_scale].enrollments of a whole run of generate_data.main
MaxMainEnrollments == 2
\* largest number of enrollments behind the tables handed to two calls of
\* one generator
MaxTwinRows == 2
\* largest number of enrollments of a run of generate_shipments that is
\* followed patient by patient
MaxShipEnrollments == 2

---------------------------------------------------------------------------
(* Generic helpers *)

Range(f) == {f[x] : x \in DOMAIN f}

\* the draws of random.randint(lo, hi) the model follows: both ends
Sample(lo, hi) == {lo, hi}

\* df[col] = value : assign one scalar to a column of every row, adding the
\* column when the table does not have it yet
SetColumn(row, col, value) ==
    [c \in (DOMAIN row) \cup {col} |-> IF c = col THEN value ELSE row[c]]

\* a path with no file at it, and a Parquet file holding a table
NoFile == [exists |-> FALSE, table |-> << >>]
ParquetFile(df) == [exists |-> TRUE, table |-> df]

\* the list main() ingests, in its order
sources == << "psp_enrollments", "psp_cases", "psp_status_history",
              "specialty_pharmacy_shipments", "claims" >>

Sources == Range(sources)

---------------------------------------------------------------------------
(* The parts of the state a specification does not use stay as they are
   before the program they belong to has run *)

\* no ingestion has run and there is nothing to ingest
BronzeIdle ==
    /\ raw = [s \in Sources |-> NoFile]
    /\ bronze = [s \in Sources |-> NoFile]
    /\ verification = [s \in Sources |-> "none"]
    /\ clock = 1
    /\ runs = 0

\* inject_data_quality_issues has not been called
InjectIdle ==
    inj = [df |-> << >>, config |-> [inject_issues |-> FALSE],
           date_columns |-> << >>, nullable_columns |-> << >>,
           now |-> 0, draws |-> << >>, out |-> << >>, done |-> FALSE]

\* no generator has been called twice
TwinIdle ==
    twin = [generator |-> "none", now |-> <<0, 0>>, out |-> << << >>, << >> >>,
            done |-> FALSE]

\* generate_data.main has not started
GenIdle ==
    /\ config = [active_scale |-> "none"]
    /\ gen_now = 0
    /\ enrollments_df = << >>
    /\ cases_df = << >>
    /\ status_history_df = << >>
    /\ shipments_df = << >>
    /\ claims_df = << >>
    /\ built = << >>
    /\ shipped_enrollments = << >>
    /\ output = [s \in Sources |-> NoFile]
    /\ pc = "idle"

---------------------------------------------------------------------------
(* Time: a datetime is a number of seconds since 2024-01-01T00:00:00 *)

Hour == 3600
Day == 86400
EpochYear == 2024

IsLeap(y) == y % 4 = 0 /\ (y % 100 # 0 \/ y % 400 = 0)
YearLen(y) == (IF IsLeap(y) THEN 366 ELSE 365) * Day

\* datetime.year
RECURSIVE YearFrom(_, _)
YearFrom(y, t) ==
    IF t < 0 THEN YearFrom(y - 1, t + YearLen(y - 1))
    ELSE IF t >= YearLen(y) THEN YearFrom(y + 1, t - YearLen(y))
    ELSE y
YearOf(t) == YearFrom(EpochYear, t)

\* the seconds of t that have passed since the start of its year
RECURSIVE SecondsIntoYear(_, _)
SecondsIntoYear(y, t) ==
    IF t < 0 THEN SecondsIntoYear(y - 1, t + YearLen(y - 1))
    ELSE IF t >= YearLen(y) THEN SecondsIntoYear(y + 1, t - YearLen(y))
    ELSE t

MonthDays(y, m) ==
    IF m = 2 THEN (IF IsLeap(y) THEN 29 ELSE 28)
    ELSE IF m \in {4, 6, 9, 11} THEN 30 ELSE 31

\* datetime.month
RECURSIVE MonthFrom(_, _, _)
MonthFrom(y, m, days) ==
    IF days < MonthDays(y, m) THEN m ELSE MonthFrom(y, m + 1, days - MonthDays(y, m))
MonthOf(t) == MonthFrom(YearOf(t), 1, SecondsIntoYear(EpochYear, t) \div Day)

\* format_month_partition(date): date.strftime('%Y-%m'), helpers.py 54-56
FormatMonthPartitionWithoutYear(date) == <<EpochYear, MonthOf(date)>>

format_month_partition(date) == <<YearOf(date), MonthOf(date)>>

\* timedelta.days of end_date - start_date
DeltaDays(start_date, end_date) == (end_date - start_date) \div Day

---------------------------------------------------------------------------
(* Data-quality injector: scripts/utils/helpers.py *)

\* the null timestamp / number, and the null of a text column
NaT == -1
None == "None"

\* rates are fractions of RateDen: int(n_rows * rate) is n_rows * r \div RateDen
RateDen == 1000
Scaled(n_rows, rate) == (n_rows * rate) \div RateDen

\* dict.get(key, default)
Get(d, key, default) == IF key \in DOMAIN d THEN d[key] ELSE default

\* defaults of the three rates (lines 70, 79, 90), in 1/RateDen
DefaultDuplicateRate == 5
DefaultNullRate == 20
DefaultFutureDateRate == 1

\* random.randint(1, 30), line 96
FutureDaysMin == 1
FutureDaysMax == 30

\* df.columns
Columns(df) == IF Len(df) = 0 THEN {} ELSE DOMAIN df[1]

\* np.random.choice(df.index, size=k, replace=False): k distinct positions
RECURSIVE ChoiceNoReplace(_, _)
ChoiceNoReplace(m, k) ==
    IF k = 0 THEN { {} }
    ELSE UNION { { S \cup {i} : S \in ChoiceNoReplace(i - 1, k - 1) } : i \in k..m }

Min(a, b) == IF a < b THEN a ELSE b

\* the null written by df.loc[idx, col] = None into a column of this type
TextColumns == {"closure_reason", "status_reason", "hub_vendor", "payer_id",
                "procedure_code", "ndc_code"}
NullOf(col) == IF col \in TextColumns THEN None ELSE NaT

\* df.loc[indices, col] = value
SetCells(df, indices, col, value) ==
    [i \in 1..Len(df) |->
        IF i \in indices THEN [df[i] EXCEPT ![col] = value] ELSE df[i]]

\* config.get('inject_issues', False), line 64
InjectEnabledDefaultOn(cfg) == Get(cfg, "inject_issues", TRUE)

InjectEnabled(cfg) == Get(cfg, "inject_issues", FALSE)

\* lines 67-75: the table with the sampled rows appended (ignore_index)
DuplicateStageCopiesFirst(df, dup) == [k \in 1..Len(dup) |-> df[dup[k]]] \o df

DuplicateStage(df, dup) == df \o [k \in 1..Len(dup) |-> df[dup[k]]]

\* lines 80-85, for nullable_columns[k..]: sel[k] holds the positions drawn
\* for column k
RECURSIVE NullStage(_, _, _, _, _)
NullStage(df, nullable_columns, sel, n_nulls, k) ==
    IF k > Len(nullable_columns) THEN df
    ELSE LET col == nullable_columns[k]
             hit == col \in Columns(df) /\ n_nulls > 0 /\ Len(df) > 0
         IN  NullStage(IF hit THEN SetCells(df, sel[k], col, NullOf(col)) ELSE df,
                       nullable_columns, sel, n_nulls, k + 1)

\* lines 93-97, for date_columns[k..]: sel[k] holds the positions drawn for
\* column k and days[k] the day offset drawn for it
RECURSIVE FutureStage(_, _, _, _, _, _)
FutureStage(df, date_columns, sel, days, at, k) ==
    IF k > Len(date_columns) THEN df
    ELSE LET col == date_columns[k]
             hit == col \in Columns(df) /\ Len(df) > 0
         IN  FutureStage(IF hit THEN SetCells(df, sel[k], col, at + days[k] * Day) ELSE df,
                         date_columns, sel, days, at, k + 1)

\* the numbers the injector derives from the table it is given
NDups(df, cfg) ==
    Scaled(Len(df), Get(cfg, "duplicate_rate", DefaultDuplicateRate))
NNulls(df, cfg) ==
    Scaled(Len(df), Get(cfg, "null_rate_optional", DefaultNullRate))
NFuture(df, cfg) ==
    Scaled(Len(df), Get(cfg, "future_date_rate", DefaultFutureDateRate))

\* inject_data_quality_issues(df, cfg, date_columns, nullable_columns)
\* called when datetime.now() is at, with the random draws d:
\*   d.dup     the rows df.sample(n=n_dups, replace=True) returns
\*   d.nulls   per nullable column, the positions np.random.choice returns
\*   d.future  per date column, the positions np.random.choice returns
\*   d.days    per date column, the value of random.randint(1, 30)
InjectWithFutureDatesFirst(df, cfg, date_columns, nullable_columns, at, d) ==
    IF ~ InjectEnabled(cfg) THEN df
    ELSE LET n_dups   == NDups(df, cfg)
             df1      == IF n_dups > 0 THEN DuplicateStage(df, d.dup) ELSE df
             n_future == NFuture(df, cfg)
             df2      == IF Len(date_columns) > 0 /\ n_future > 0
                         THEN FutureStage(df1, date_columns, d.future, d.days, at, 1)
                         ELSE df1
         IN  IF Len(nullable_columns) > 0
             THEN NullStage(df2, nullable_columns, d.nulls, NNulls(df, cfg), 1)
             ELSE df2

InjectWith(df, cfg, date_columns, nullable_columns, at, d) ==
    IF ~ InjectEnabled(cfg) THEN df
    ELSE LET n_dups   == NDups(df, cfg)
             df1      == IF n_dups > 0 THEN DuplicateStage(df, d.dup) ELSE df
             df2      == IF Len(nullable_columns) > 0
                         THEN NullStage(df1, nullable_columns, d.nulls,
                                        NNulls(df, cfg), 1)
                         ELSE df1
             n_future == NFuture(df, cfg)
         IN  IF Len(date_columns) > 0 /\ n_future > 0
             THEN FutureStage(df2, date_columns, d.future, d.days, at, 1)
             ELSE df2

\* every combination of draws the random generators can return in that
\* call; a draw the call does not make is left at one fixed value
InjectDraws(df, cfg, date_columns, nullable_columns) ==
    LET on       == InjectEnabled(cfg)
        n_dups   == IF on THEN NDups(df, cfg) ELSE 0
        m        == Len(df) + n_dups
        n_nulls  == IF on THEN NNulls(df, cfg) ELSE 0
        n_future == IF on THEN NFuture(df, cfg) ELSE 0
    IN  [ dup    : [1..n_dups -> 1..Len(df)],
          nulls  : [1..Len(nullable_columns) ->
                       ChoiceNoReplace(m, Min(n_nulls, m))],
          future : [1..Len(date_columns) ->
                       ChoiceNoReplace(m, Min(n_future, m))],
          days   : [1..Len(date_columns) ->
                       IF n_future > 0 THEN Sample(FutureDaysMin, FutureDaysMax)
                       ELSE {FutureDaysMin}] ]

\* the draws of that call in which every column of a stage gets the same
\* positions, and every date column the same day offset
AlignedInjectDraws(df, cfg, date_columns, nullable_columns) ==
    LET on       == InjectEnabled(cfg)
        n_dups   == IF on THEN NDups(df, cfg) ELSE 0
        m        == Len(df) + n_dups
        n_nulls  == IF on THEN NNulls(df, cfg) ELSE 0
        n_future == IF on THEN NFuture(df, cfg) ELSE 0
    IN  { [ dup    |-> dup,
            nulls  |-> [k \in 1..Len(nullable_columns) |-> nulls],
            future |-> [k \in 1..Len(date_columns) |-> future],
            days   |-> [k \in 1..Len(date_columns) |-> days] ] :
          dup    \in [1..n_dups -> 1..Len(df)],
          nulls  \in ChoiceNoReplace(m, Min(n_nulls, m)),
          future \in ChoiceNoReplace(m, Min(n_future, m)),
          days   \in IF n_future > 0 THEN Sample(FutureDaysMin, FutureDaysMax)
                     ELSE {FutureDaysMin} }

\* the draws of that call in which the sampled rows are consecutive from
\* the first or from the last row, every column of a stage gets the same
\* positions, the first or the last ones, and every date column the same
\* day offset
NarrowInjectDraws(df, cfg, date_columns, nullable_columns) ==
    LET on       == InjectEnabled(cfg)
        n_dups   == IF on THEN NDups(df, cfg) ELSE 0
        m        == Len(df) + n_dups
        n_nulls  == IF on THEN Min(NNulls(df, cfg), m) ELSE 0
        n_future == IF on THEN Min(NFuture(df, cfg), m) ELSE 0
        Ends(k)  == { 1..k, (m - k + 1)..m }
    IN  { [ dup    |-> [k \in 1..n_dups |-> ((from + k - 2) % Len(df)) + 1],
            nulls  |-> [k \in 1..Len(nullable_columns) |-> nulls],
            future |-> [k \in 1..Len(date_columns) |-> future],
            days   |-> [k \in 1..Len(date_columns) |-> days] ] :
          from   \in IF n_dups > 0 THEN {1, Len(df)} ELSE {1},
          nulls  \in Ends(n_nulls),
          future \in Ends(n_future),
          days   \in IF n_future > 0 THEN Sample(FutureDaysMin, FutureDaysMax)
                     ELSE {FutureDaysMin} }

\* one of those draws: the sampled rows from the first row on, or from the
\* last, the positions the first or the last ones, the day offset days
EndInjectDraw(df, cfg, date_columns, nullable_columns, last, days) ==
    LET on       == InjectEnabled(cfg)
        n_dups   == IF on THEN NDups(df, cfg) ELSE 0
        m        == Len(df) + n_dups
        n_nulls  == IF on THEN Min(NNulls(df, cfg), m) ELSE 0
        n_future == IF on THEN Min(NFuture(df, cfg), m) ELSE 0
        from     == IF last /\ n_dups > 0 THEN Len(df) ELSE 1
        End(k)   == IF last THEN (m - k + 1)..m ELSE 1..k
    IN  [ dup    |-> [k \in 1..n_dups |-> ((from + k - 2) % Len(df)) + 1],
          nulls  |-> [k \in 1..Len(nullable_columns) |-> End(n_nulls)],
          future |-> [k \in 1..Len(date_columns) |-> End(n_future)],
          days   |-> [k \in 1..Len(date_columns) |->
                         IF n_future > 0 THEN days ELSE FutureDaysMin] ]

\* --- the injector called on its own ---------------------------------------

\* the rates a data_quality section is given in the model, in 1/RateDen
Rates == {0, 500}

Restrict(f, keys) == [k \in keys |-> f[k]]

DataQualityKeys ==
    {"inject_issues", "duplicate_rate", "null_rate_optional", "future_date_rate"}

\* data_quality sections: every key present, the flag absent, only the flag
DataQualityConfigs ==
    LET full == { [k \in DataQualityKeys |->
                      CASE k = "inject_issues"      -> c.inject_issues
                        [] k = "duplicate_rate"     -> c.duplicate_rate
                        [] k = "null_rate_optional" -> c.null_rate_optional
                        [] k = "future_date_rate"   -> c.future_date_rate] :
                    c \in [inject_issues : BOOLEAN, duplicate_rate : Rates,
                           null_rate_optional : Rates, future_date_rate : Rates] }
    IN  UNION { { f, Restrict(f, DataQualityKeys \ {"inject_issues"}),
                  Restrict(f, {"inject_issues"}) } : f \in full }

\* rows of a table with a key, a timestamp column and a text column
InjectRows ==
    [case_id : {1}, closed_ts : {NaT, 10}, closure_reason : {"ABANDONED"}]

InjectTables ==
    UNION { [1..n -> InjectRows] : n \in 0..MaxInjectRows }

InjectDateColumns == { << >>, <<"closed_ts">>, <<"case_opened_ts", "closed_ts">> }
InjectNullableColumns == { << >>, <<"closed_ts", "closure_reason">> }

InitInject ==
    /\ inj \in [df : InjectTables, config : DataQualityConfigs,
                date_columns : InjectDateColumns,
                nullable_columns : InjectNullableColumns,
                now : {100}, draws : {<< >>}, out : {<< >>}, done : {FALSE}]
    /\ TwinIdle
    /\ BronzeIdle
    /\ GenIdle

\* one call of inject_data_quality_issues
InjectCall ==
    /\ ~ inj.done
    /\ \E d \in InjectDraws(inj.df, inj.config, inj.date_columns,
                            inj.nullable_columns) :
          inj' = [inj EXCEPT !.done = TRUE, !.draws = d,
                             !.out = InjectWith(inj.df, inj.config, inj.date_columns,
                                                inj.nullable_columns, inj.now, d)]
    /\ UNCHANGED <<twin, bronzeVars, genVars>>

NextInject == InjectCall

SpecInject == InitInject /\ [][NextInject]_vars

\* C10: when data_quality.inject_issues is false or absent,
\* inject_data_quality_issues returns its input table unchanged (same rows,
\* same order, none added, no cell nulled, no date replaced) whatever
\* date_columns and nullable_columns are; corruption happens only when the
\* flag is true.
C10_NoInjectionWithoutFlag ==
    (inj.done /\ inj.out # inj.df) =>
        ("inject_issues" \in DOMAIN inj.config /\ inj.config["inject_issues"] = TRUE)

C10_Witness ==
    /\ inj.done
    /\ "inject_issues" \notin DOMAIN inj.config
    /\ inj.config["duplicate_rate"] = 500
    /\ inj.config["null_rate_optional"] = 500
    /\ inj.config["future_date_rate"] = 500
    /\ Len(inj.df) = 2
    /\ inj.date_columns = <<"closed_ts">>
    /\ inj.nullable_columns = <<"closed_ts", "closure_reason">>
    /\ inj.out = inj.df

\* the rate C18 speaks of, in 1/RateDen: duplicate_rate, 0.005 when the
\* section does not give it
C18_DuplicateRate ==
    IF "duplicate_rate" \in DOMAIN inj.config THEN inj.config["duplicate_rate"] ELSE 5

\* the number of rows C18 says the call returns
C18_RowCount == Len(inj.df) + (Len(inj.df) * C18_DuplicateRate) \div 1000

\* a call with injection enabled has returned
C18_Injected ==
    /\ inj.done
    /\ "inject_issues" \in DOMAIN inj.config
    /\ inj.config["inject_issues"] = TRUE

\* C18 as stated: with injection enabled on a table of n rows the call
\* returns n + floor(n * duplicate_rate) rows: the n original rows first, in
\* their order, then rows each of which is a copy of an original row.
C18_OriginalsThenCopies ==
    C18_Injected =>
        /\ Len(inj.out) = C18_RowCount
        /\ \A i \in 1..Len(inj.df) : inj.out[i] = inj.df[i]
        /\ \A i \in (Len(inj.df) + 1)..Len(inj.out) :
              \E j \in 1..Len(inj.df) : inj.out[i] = inj.df[j]

\* row `got` is row `orig` but for the cells of nullable columns that are
\* null and the cells of date columns that hold a date 1 to 30 days after
\* the time of the call
C18_SameButLaterStages(got, orig) ==
    /\ DOMAIN got = DOMAIN orig
    /\ \A col \in DOMAIN orig :
          \/ got[col] = orig[col]
          \/ /\ col \in Range(inj.nullable_columns)
             /\ got[col] = NullOf(col)
          \/ /\ col \in Range(inj.date_columns)
             /\ \E days \in 1..30 : got[col] = inj.now + days * Day

\* C18, amended: with injection enabled on a table of n rows the call
\* returns exactly n + floor(n * duplicate_rate) rows: the n original rows
\* first, in their order, then floor(n * duplicate_rate) copies of original
\* rows, no row removed; the null and future-date stages then act on
\* originals and copies alike, so a returned row equals its original in
\* every cell those stages did not null or overwrite, and in every cell
\* when neither stage has a column or a row to act on.
C18_OriginalsThenCopiesUpToLaterStages ==
    C18_Injected =>
        /\ Len(inj.out) = C18_RowCount
        /\ \A i \in 1..Len(inj.df) : C18_SameButLaterStages(inj.out[i], inj.df[i])
        /\ \A i \in (Len(inj.df) + 1)..Len(inj.out) :
              \E j \in 1..Len(inj.df) : C18_SameButLaterStages(inj.out[i], inj.df[j])
        /\ ( /\ inj.nullable_columns = << >> \/ Get(inj.config, "null_rate_optional", 20) = 0
             /\ inj.date_columns = << >> \/ Get(inj.config, "future_date_rate", 1) = 0 )
              => /\ \A i \in 1..Len(inj.df) : inj.out[i] = inj.df[i]
                 /\ \A i \in (Len(inj.df) + 1)..Len(inj.out) :
                       \E j \in 1..Len(inj.df) : inj.out[i] = inj.df[j]

\* two different rows, the second one copied to the end, and the null stage
\* has emptied a cell of the first
C18_Witness ==
    /\ C18_Injected
    /\ Len(inj.df) = 2
    /\ inj.df[1] # inj.df[2]
    /\ Len(inj.out) = 3
    /\ inj.draws.dup = <<2>>
    /\ inj.out[3] = inj.df[2]
    /\ inj.out[2] = inj.df[2]
    /\ inj.out[1] # inj.df[1]
    /\ inj.out[1]["closure_reason"] = None

\* the cells the null stage of the call selected: positions of the table
\* after the duplicate stage, in the nullable columns the table has
C19_NulledCells ==
    UNION { inj.draws.nulls[c] \X {inj.nullable_columns[c]} :
              c \in { k \in 1..Len(inj.nullable_columns) :
                        inj.nullable_columns[k] \in Columns(inj.df) } }

\* the cells the future-date stage of the call selected, each with the day
\* offset drawn for its column
C19_FutureCells ==
    IF Get(inj.config, "future_date_rate", 1) * Len(inj.df) < 1000 THEN {}
    ELSE UNION { inj.draws.future[c] \X {inj.date_columns[c]} \X {inj.draws.days[c]} :
                   c \in { k \in 1..Len(inj.date_columns) :
                             inj.date_columns[k] \in Columns(inj.df) } }

\* C19 as stated: every cell the null stage selected is null in the table
\* returned, whatever nullable_columns and date_columns are.
C19_NulledCellsAreNull ==
    C18_Injected =>
        \A c \in C19_NulledCells :
            inj.out[c[1]][c[2]] = NullOf(c[2])

\* C19, amended: the stages run in the order duplicates, nulls, future
\* dates: the null stage selects among the rows of the table with the
\* copies appended, and a cell it selected is null in the table returned
\* unless its column is a date column too and the future-date stage selected
\* its row, in which case it holds the future date written over the null.
C19_NulledCellsAreNullOrFutureDates ==
    C18_Injected =>
        \A c \in C19_NulledCells :
            /\ c[1] \in 1..Len(inj.out)
            /\ IF \E f \in C19_FutureCells : f[1] = c[1] /\ f[2] = c[2]
               THEN \E f \in C19_FutureCells :
                       /\ f[1] = c[1] /\ f[2] = c[2]
                       /\ inj.out[c[1]][c[2]] = inj.now + f[3] * Day
               ELSE inj.out[c[1]][c[2]] = NullOf(c[2])

\* closed_ts is nullable and a date column; the null stage and the
\* future-date stage both selected it in the copy the duplicate stage
\* appended
C19_Witness ==
    /\ C18_Injected
    /\ Len(inj.df) = 2
    /\ Len(inj.out) = 3
    /\ inj.df[inj.draws.dup[1]]["closed_ts"] = 10
    /\ <<3, "closed_ts">> \in C19_NulledCells
    /\ \E f \in C19_FutureCells : f[1] = 3 /\ f[2] = "closed_ts"
    /\ inj.out[3]["closed_ts"] > inj.now
    /\ inj.out[3]["closure_reason"] = None

---------------------------------------------------------------------------
(* The configuration: config/data_generation_config.yaml, loaded *)

\* the scale of test_enrollment_generator.py (lines 46-52) with n enrollments
TestScale(n) ==
    [label |-> "Test Mode", enrollments |-> n, years_of_data |-> 1,
     start_date |-> 0, end_date |-> 365 * Day]

\* data_quality sections of a generator run: injection off, one stage on
GeneratorDataQuality ==
    { [inject_issues |-> f, duplicate_rate |-> r[1], null_rate_optional |-> r[2],
       future_date_rate |-> r[3], nullable_fields |-> <<"inquiry_ts">>] :
        f \in {TRUE},
        r \in { <<500, 0, 0>>, <<0, 500, 0>>, <<0, 0, 500>> } }
    \cup
    { [inject_issues |-> FALSE, duplicate_rate |-> 500, null_rate_optional |-> 500,
       future_date_rate |-> 500, nullable_fields |-> <<"inquiry_ts">>] }

\* the sections the later generators read: multipliers (status_history.py 33,
\* shipments.py 34, claims.py 33), funnel_rates (shipments.py 33, in
\* 1/RateDen) and timing.refill_cadence (shipments.py 37)
Multipliers ==
    [status_changes_per_case |-> 5, shipments_per_shipped_patient |-> 2,
     claims_per_patient_year |-> 2]
FunnelRates(first_shipment) == [first_shipment |-> first_shipment]
Timing == [refill_cadence |-> << [days_supply |-> 30], [days_supply |-> 90] >>]

Configs ==
    [ project      : { [random_seed |-> 42] },
      active_scale : {"test"},
      scales       : { [s \in {"test"} |-> TestScale(n)] : n \in 0..MaxEnrollments },
      multipliers  : { Multipliers },
      funnel_rates : { FunnelRates(1000) },
      timing       : { Timing },
      data_quality : GeneratorDataQuality ]

\* the moment the generators run: after the generated period
GenerationTime == 800 * Day + 12 * Hour

---------------------------------------------------------------------------
(* Enrollments: scripts/generators/enrollments.py *)

\* hash_patient_id(patient_number): one hash per patient number
hash_patient_id(patient_number) == <<"sha256", patient_number>>

\* random_date_between(start_date, end_date), with its two draws
random_date_between(start_date, end_date, random_days, random_seconds) ==
    start_date + random_days * Day + random_seconds

\* what the random generator can return in one pass of the loop (lines 63-125)
EnrollmentDraws(start_date, end_date) ==
    [ random_days         : Sample(0, DeltaDays(start_date, end_date)),
      random_seconds      : Sample(0, 86400),
      inquiry_days_before : {14},
      has_inquiry         : BOOLEAN,
      plan_type           : {"COMMERCIAL", "CASH_PAY"},
      npi                 : {"1000000000"} ]

\* the product and the payer weighted_choice returns (lines 65, 86): the one
\* product and the one payer of config['dimensions']
product == [product_name |-> "PRODUCT-1", ndc |-> "NDC-1"]
payer == [payer_id |-> "PAYER-1"]

\* f"PSP-{enrolled_ts.year}-{i+1:06d}": position i is i + 1 here
EnrollmentIdDroppingNumber(enrolled_ts, i) == <<"PSP", YearOf(enrolled_ts), 1>>

EnrollmentId(enrolled_ts, i) == <<"PSP", YearOf(enrolled_ts), i + 1>>

\* lines 70-75 and 102-123: the row of pass i of the loop, i in range(n)
EnrollmentRow(i, d, start_date, end_date, created_at) ==
    LET enrolled_ts == random_date_between(start_date, end_date,
                                           d.random_days, d.random_seconds)
        inquiry_ts  == IF d.has_inquiry
                       THEN enrolled_ts - d.inquiry_days_before * Day
                       ELSE NaT
    IN  [ enrollment_id   |-> EnrollmentId(enrolled_ts, i),
          patient_id_hash |-> hash_patient_id(i),
          program_name    |-> product.product_name,
          ndc_code        |-> product.ndc,
          enrolled_ts     |-> enrolled_ts,
          enrolled_month  |-> format_month_partition(enrolled_ts),
          inquiry_ts      |-> inquiry_ts,
          payer_id        |-> IF d.plan_type = "CASH_PAY" THEN None
                              ELSE payer.payer_id,
          plan_type       |-> d.plan_type,
          prescriber_npi  |-> d.npi,
          created_at      |-> created_at ]

ScaleConfig(cfg) == cfg.scales[cfg.active_scale]

\* lines 63-131: the table the loop builds from the draws of its passes
EnrollmentRows(cfg, draws, created_at) ==
    LET scale_config == ScaleConfig(cfg)
    IN  [k \in 1..scale_config.enrollments |->
            EnrollmentRow(k - 1, draws[k], scale_config.start_date,
                          scale_config.end_date, created_at)]

\* the draws of the loop of generate_enrollments(config)
EnrollmentLoopDraws(cfg) ==
    LET scale_config == ScaleConfig(cfg)
    IN  [1..scale_config.enrollments ->
            EnrollmentDraws(scale_config.start_date, scale_config.end_date)]

enrollments_date_columns == <<"enrolled_ts", "inquiry_ts">>

\* generate_enrollments(config) at time t: the table it returns when its
\* loop draws `draws` and the injector draws d
generate_enrollments(cfg, t, draws, d) ==
    InjectWith(EnrollmentRows(cfg, draws, t), cfg.data_quality,
               enrollments_date_columns, cfg.data_quality.nullable_fields, t, d)

InitEnrollments ==
    /\ config \in Configs
    /\ gen_now = GenerationTime
    /\ enrollments_df = << >>
    /\ cases_df = << >>
    /\ status_history_df = << >>
    /\ shipments_df = << >>
    /\ claims_df = << >>
    /\ built = << >>
    /\ shipped_enrollments = << >>
    /\ output = [s \in Sources |-> NoFile]
    /\ pc = "enrollments"
    /\ BronzeIdle
    /\ InjectIdle
    /\ TwinIdle

\* generate_data.main, step 1 (lines 69-71)
GenerateEnrollments ==
    /\ pc = "enrollments"
    /\ \E draws \in EnrollmentLoopDraws(config) :
         \E d \in InjectDraws(EnrollmentRows(config, draws, gen_now),
                              config.data_quality, enrollments_date_columns,
                              config.data_quality.nullable_fields) :
            /\ enrollments_df' = generate_enrollments(config, gen_now, draws, d)
            /\ built' = EnrollmentRows(config, draws, gen_now)
    /\ output' = [output EXCEPT !["psp_enrollments"] = ParquetFile(enrollments_df')]
    /\ pc' = "cases"
    /\ UNCHANGED <<config, gen_now, cases_df, status_history_df, shipments_df, claims_df>>
    /\ UNCHANGED <<bronzeVars, injVars, shipped_enrollments>>

NextEnrollments == GenerateEnrollments

SpecEnrollments == InitEnrollments /\ [][NextEnrollments]_vars

\* the column of a table, as the set of its values (Series.nunique counts it)
ColumnValues(df, col) == {df[i][col] : i \in 1..Len(df)}

\* len(df) - df['enrollment_id'].nunique(), test_enrollment_generator.py line 83
DuplicatesFigure(df) == Len(df) - Cardinality(ColumnValues(df, "enrollment_id"))

EnrollmentsDone == pc # "enrollments" /\ pc # "idle"

\* the number of rows the duplicate stage adds under this configuration
ConfiguredDuplicates(n) ==
    IF config.data_quality.inject_issues
    THEN (n * config.data_quality.duplicate_rate) \div 1000
    ELSE 0

\* C9 as stated: generate_enrollments(config) returns exactly
\* scales[active_scale].enrollments rows with pairwise distinct
\* enrollment_id values, so the test's 'Duplicates' figure is 0.
C9_ExactlyNDistinctRows ==
    EnrollmentsDone =>
        /\ Len(enrollments_df) = config.scales[config.active_scale].enrollments
        /\ DuplicatesFigure(enrollments_df) = 0

\* C9, amended: the loop builds exactly scales[active_scale].enrollments
\* rows, the first rows of the returned table, with pairwise distinct
\* enrollment_id values; the injector appends int(n * duplicate_rate) copies
\* of them when injection is enabled, so the table has n rows and a
\* 'Duplicates' figure of 0 only when no duplicate is injected.
C9_NDistinctRowsPlusInjectedDuplicates ==
    EnrollmentsDone =>
        LET n == config.scales[config.active_scale].enrollments
        IN  /\ Len(enrollments_df) = n + ConfiguredDuplicates(n)
            /\ \A i, j \in 1..n :
                  i # j => enrollments_df[i]["enrollment_id"] #
                           enrollments_df[j]["enrollment_id"]
            /\ DuplicatesFigure(enrollments_df) = ConfiguredDuplicates(n)

C9_Witness ==
    /\ EnrollmentsDone
    /\ config.scales[config.active_scale].enrollments = 2
    /\ config.data_quality.inject_issues
    /\ Len(enrollments_df) = 3
    /\ DuplicatesFigure(enrollments_df) = 1
    /\ enrollments_df[1]["enrollment_id"] # enrollments_df[2]["enrollment_id"]

\* C12: every enrolled_ts built by generate_enrollments, the datetime
\* random_date_between(start_date, end_date) returns, lies between the
\* start_date and the end_date of the active scale, and the year in
\* enrollment_id is a year of that period.
C12_EnrolledWithinPeriod ==
    EnrollmentsDone =>
        \A k \in 1..Len(built) :
            LET scale_config == ScaleConfig(config)
            IN  /\ scale_config.start_date <= built[k]["enrolled_ts"]
                /\ built[k]["enrolled_ts"] <= scale_config.end_date
                /\ YearOf(scale_config.start_date) <= built[k]["enrollment_id"][2]
                /\ built[k]["enrollment_id"][2] <= YearOf(scale_config.end_date)

---------------------------------------------------------------------------
(* Cases: scripts/generators/cases.py *)

case_statuses == <<"ACTIVE", "CLOSED", "ON_HOLD">>
closure_reasons == <<"COMPLETED_THERAPY", "ABANDONED", "LOST_TO_FOLLOWUP",
                     "PATIENT_DECLINED", "TRANSFERRED">>

\* what the random generator can return in one pass of the loop (lines
\* 36-70): days_to_close and closure_reason are drawn for a CLOSED case
\* only; of the closed cases the model follows a completed one closed at the
\* earliest day and the others closed at the latest
CaseDraws ==
    [ hours : Sample(-12, 12), current_status : Range(case_statuses) \ {"CLOSED"},
      days_to_close : {0}, closure_reason : {None}, case_manager : {1} ]
    \cup
    [ hours : Sample(-12, 12), current_status : {"CLOSED"},
      days_to_close : {30}, closure_reason : {"COMPLETED_THERAPY"},
      case_manager : {20} ]
    \cup
    [ hours : Sample(-12, 12), current_status : {"CLOSED"},
      days_to_close : {180}, closure_reason : {"ABANDONED"},
      case_manager : {20} ]

\* f"CASE-{enrollment_id.split('-')[1]}-{enrollment_id.split('-')[2]}"
CaseId(enrollment_id) == <<"CASE", enrollment_id[2], enrollment_id[3]>>

\* lines 38-83: the case of one enrollment row
CaseRowOfFirstEnrollment(enrollments, k, d, created_at) ==
    LET enrollment     == enrollments[1]
        case_opened_ts == enrollment["enrolled_ts"] + d.hours * Hour
        closed         == d.current_status = "CLOSED"
    IN  [ case_id         |-> CaseId(enrollment["enrollment_id"]),
          enrollment_id   |-> enrollment["enrollment_id"],
          patient_id_hash |-> enrollment["patient_id_hash"],
          case_opened_ts  |-> case_opened_ts,
          opened_month    |-> format_month_partition(case_opened_ts),
          case_manager_id |-> <<"CM", d.case_manager>>,
          current_status  |-> d.current_status,
          closed_ts       |-> IF closed THEN case_opened_ts + d.days_to_close * Day
                              ELSE NaT,
          closure_reason  |-> IF closed THEN d.closure_reason ELSE None,
          created_at      |-> created_at ]

CaseRowClosingOnHold(enrollments, k, d, created_at) ==
    LET enrollment     == enrollments[k]
        case_opened_ts == enrollment["enrolled_ts"] + d.hours * Hour
        closed         == d.current_status # "ACTIVE"
    IN  [ case_id         |-> CaseId(enrollment["enrollment_id"]),
          enrollment_id   |-> enrollment["enrollment_id"],
          patient_id_hash |-> enrollment["patient_id_hash"],
          case_opened_ts  |-> case_opened_ts,
          opened_month    |-> format_month_partition(case_opened_ts),
          case_manager_id |-> <<"CM", d.case_manager>>,
          current_status  |-> d.current_status,
          closed_ts       |-> IF closed THEN case_opened_ts + d.days_to_close * Day
                              ELSE NaT,
          closure_reason  |-> IF closed THEN d.closure_reason ELSE None,
          created_at      |-> created_at ]

CaseRow(enrollments, k, d, created_at) ==
    LET enrollment     == enrollments[k]
        case_opened_ts == enrollment["enrolled_ts"] + d.hours * Hour
        closed         == d.current_status = "CLOSED"
    IN  [ case_id         |-> CaseId(enrollment["enrollment_id"]),
          enrollment_id   |-> enrollment["enrollment_id"],
          patient_id_hash |-> enrollment["patient_id_hash"],
          case_opened_ts  |-> case_opened_ts,
          opened_month    |-> format_month_partition(case_opened_ts),
          case_manager_id |-> <<"CM", d.case_manager>>,
          current_status  |-> d.current_status,
          closed_ts       |-> IF closed THEN case_opened_ts + d.days_to_close * Day
                              ELSE NaT,
          closure_reason  |-> IF closed THEN d.closure_reason ELSE None,
          created_at      |-> created_at ]

\* lines 36-91: one case per row of enrollments_df, in its order
CaseRows(enrollments, draws, created_at) ==
    [k \in 1..Len(enrollments) |-> CaseRow(enrollments, k, draws[k], created_at)]

cases_date_columns == <<"case_opened_ts", "closed_ts">>
cases_nullable_columns == <<"closed_ts", "closure_reason">>

\* generate_cases(enrollments_df, config) at time t: the table it returns
\* when its loop draws `draws` and the injector draws d
generate_cases(enrollments, cfg, t, draws, d) ==
    InjectWith(CaseRows(enrollments, draws, t), cfg.data_quality,
               cases_date_columns, cases_nullable_columns, t, d)

\* enrollment tables handed to generate_cases on its own: the rows of a run
\* of generate_enrollments, as built and with one of them duplicated
FirstDayDraw ==
    [random_days |-> 0, random_seconds |-> 0, inquiry_days_before |-> 14,
     has_inquiry |-> TRUE, plan_type |-> "COMMERCIAL", npi |-> "1000000000"]

BuiltEnrollments(cfg, t) ==
    EnrollmentRows(cfg, [k \in 1..ScaleConfig(cfg).enrollments |-> FirstDayDraw], t)

EnrollmentInputs(cfg, t) ==
    LET rows == BuiltEnrollments(cfg, t)
    IN  {rows} \cup {rows \o <<rows[i]>> : i \in 1..Min(1, Len(rows))}

InitCases ==
    /\ config \in Configs
    /\ gen_now = GenerationTime
    /\ enrollments_df \in EnrollmentInputs(config, gen_now)
    /\ cases_df = << >>
    /\ status_history_df = << >>
    /\ shipments_df = << >>
    /\ claims_df = << >>
    /\ built = << >>
    /\ shipped_enrollments = << >>
    /\ output = [s \in Sources |-> NoFile]
    /\ pc = "cases"
    /\ BronzeIdle
    /\ InjectIdle
    /\ TwinIdle

\* generate_data.main, step 2 (lines 75-77)
GenerateCases ==
    /\ pc = "cases"
    /\ \E draws \in [1..Len(enrollments_df) -> CaseDraws] :
         \E d \in InjectDraws(CaseRows(enrollments_df, draws, gen_now),
                              config.data_quality, cases_date_columns,
                              cases_nullable_columns) :
            /\ cases_df' = generate_cases(enrollments_df, config, gen_now, draws, d)
            /\ built' = CaseRows(enrollments_df, draws, gen_now)
    /\ output' = [output EXCEPT !["psp_cases"] = ParquetFile(cases_df')]
    /\ pc' = "status_history"
    /\ UNCHANGED <<config, gen_now, enrollments_df, status_history_df,
                   shipments_df, claims_df>>
    /\ UNCHANGED <<bronzeVars, injVars, shipped_enrollments>>

NextCases == GenerateCases

SpecCases == InitCases /\ [][NextCases]_vars

CasesDone == pc \notin {"idle", "enrollments", "cases"}

\* the case rows that reference enrollment_id e
CasesOf(e) == {k \in 1..Len(cases_df) : cases_df[k]["enrollment_id"] = e}

EnrollmentIds == ColumnValues(enrollments_df, "enrollment_id")

C20_ClosureSetWhenClosed ==
    CasesDone =>
        /\ Len(built) = Len(enrollments_df)
        /\ \A k \in 1..Len(built) :
              /\ built[k]["current_status"] \in {"ACTIVE", "CLOSED", "ON_HOLD"}
              /\ built[k]["current_status"] = "CLOSED" =>
                    /\ built[k]["closure_reason"] # None
                    /\ built[k]["closed_ts"] # NaT
                    /\ \E days \in 30..180 :
                          built[k]["closed_ts"] = built[k]["case_opened_ts"] + days * Day
              /\ built[k]["current_status"] \in {"ACTIVE", "ON_HOLD"} =>
                    /\ built[k]["closure_reason"] = None
                    /\ built[k]["closed_ts"] = NaT
              /\ \E hours \in (-12)..12 :
                    built[k]["case_opened_ts"] =
                        enrollments_df[k]["enrolled_ts"] + hours * Hour

\* a case closed after 180 days, opened 12 hours before the enrollment, and
\* a case on hold
C20_Witness ==
    /\ CasesDone
    /\ Len(built) = 2
    /\ built[1]["current_status"] = "CLOSED"
    /\ built[1]["case_opened_ts"] = enrollments_df[1]["enrolled_ts"] - 12 * Hour
    /\ built[1]["closed_ts"] = built[1]["case_opened_ts"] + 180 * Day
    /\ built[2]["current_status"] = "ON_HOLD"
    /\ built[2]["closed_ts"] = NaT

---------------------------------------------------------------------------
(* Status history: scripts/generators/status_history.py *)

\* status_paths, lines 36-67
successful == <<"INQUIRY", "ENROLLED", "BV_PENDING", "BV_COMPLETE",
                "PA_PENDING", "PA_APPROVED", "SHIPPED", "ACTIVE">>
abandoned_at_bv == <<"INQUIRY", "ENROLLED", "BV_PENDING", "ABANDONED">>
abandoned_at_pa == <<"INQUIRY", "ENROLLED", "BV_PENDING", "BV_COMPLETE",
                     "PA_PENDING", "PA_DENIED", "ABANDONED">>
abandoned_early == <<"INQUIRY", "ENROLLED", "ABANDONED">>

status_paths(name) ==
    CASE name = "successful"      -> successful
      [] name = "abandoned_at_bv" -> abandoned_at_bv
      [] name = "abandoned_at_pa" -> abandoned_at_pa
      [] name = "abandoned_early" -> abandoned_early

abandonment_points == {"abandoned_early", "abandoned_at_bv", "abandoned_at_pa"}
denial_reasons == {"NOT_MEDICALLY_NECESSARY", "MISSING_DOCUMENTATION",
                   "COVERAGE_ISSUE"}

\* lines 74-78: cases_df.merge(enrollments_df[[enrollment_id, enrolled_ts,
\* inquiry_ts]], on='enrollment_id', how='left'): every case row, in order,
\* once per enrollment row with its enrollment_id (once, with null
\* timestamps, when there is none)
WithTiming(case, enrolled_ts, inquiry_ts) ==
    [c \in (DOMAIN case) \cup {"enrolled_ts", "inquiry_ts"} |->
        CASE c = "enrolled_ts" -> enrolled_ts
          [] c = "inquiry_ts"  -> inquiry_ts
          [] OTHER             -> case[c]]

RECURSIVE Matches(_, _, _)
Matches(case, enrollments, j) ==
    IF j > Len(enrollments) THEN << >>
    ELSE (IF enrollments[j]["enrollment_id"] = case["enrollment_id"]
          THEN << WithTiming(case, enrollments[j]["enrolled_ts"],
                             enrollments[j]["inquiry_ts"]) >>
          ELSE << >>) \o Matches(case, enrollments, j + 1)

RECURSIVE Merge(_, _, _)
Merge(cases, enrollments, k) ==
    IF k > Len(cases) THEN << >>
    ELSE LET found == Matches(cases[k], enrollments, 1)
         IN  (IF Len(found) = 0 THEN << WithTiming(cases[k], NaT, NaT) >> ELSE found)
             \o Merge(cases, enrollments, k + 1)

\* lines 81-93: the path of one case, with the draws made while choosing it
PathSkippingEnrolled(case, d) ==
    IF case["current_status"] = "ACTIVE" THEN Tail(successful)
    ELSE IF case["current_status"] = "CLOSED"
         THEN IF case["closure_reason"] = "COMPLETED_THERAPY"
              THEN Tail(successful) \o <<"CLOSED">>
              ELSE Tail(status_paths(d.path_choice))
         ELSE SubSeq(successful, 2, d.hold_len)

Path(case, d) ==
    IF case["current_status"] = "ACTIVE" THEN status_paths("successful")
    ELSE IF case["current_status"] = "CLOSED"
         THEN IF case["closure_reason"] = "COMPLETED_THERAPY"
              THEN status_paths("successful") \o <<"CLOSED">>
              ELSE status_paths(d.path_choice)
         ELSE SubSeq(status_paths("successful"), 1, d.hold_len)

\* lines 105-111: the range random.randint draws the delay of a status from
DelayRangeFromZero(status) ==
    IF status \in {"BV_COMPLETE", "PA_APPROVED"} THEN <<1, 10>>
    ELSE IF status = "SHIPPED" THEN <<3, 14>>
    ELSE <<0, 5>>

DelayRange(status) ==
    IF status \in {"BV_COMPLETE", "PA_APPROVED"} THEN <<1, 10>>
    ELSE IF status = "SHIPPED" THEN <<3, 14>>
    ELSE <<1, 5>>

\* line 118: the range of the duration of a status that is not the last
DurationRange == <<1, 3>>

\* a draw at the low or at the high end of its range
Pick(end, range) == IF end = "lo" THEN range[1] ELSE range[2]

\* the draws of one walk: each is made only on the path that needs it; the
\* model follows the walks whose delays and durations are all at the low
\* end of their ranges and those where they are all at the high end
WalkDraws(case) ==
    LET closed_other == /\ case["current_status"] = "CLOSED"
                        /\ case["closure_reason"] # "COMPLETED_THERAPY"
        on_hold      == case["current_status"] \notin {"ACTIVE", "CLOSED"}
    IN  { d \in [ path_choice : abandonment_points, hold_len : 3..6,
                  pace : {"lo", "hi"}, denial : denial_reasons ] :
            /\ closed_other \/ d.path_choice = "abandoned_early"
            /\ on_hold \/ d.hold_len = 3
            /\ (closed_other /\ d.path_choice = "abandoned_at_pa")
                  \/ d.denial = "COVERAGE_ISSUE" }

\* timestamp + timedelta(days=n): NaT stays NaT
PlusDays(ts, n) == IF ts = NaT THEN NaT ELSE ts + n * Day

\* lines 116-121: the end of record i of a walk; the last one has none
StatusEndTsAlwaysSet(path, i, status_start_ts, d) ==
    PlusDays(status_start_ts, Pick(d.pace, DurationRange))

StatusEndTs(path, i, status_start_ts, d) ==
    IF i < Len(path)
    THEN PlusDays(status_start_ts, Pick(d.pace, DurationRange))
    ELSE NaT

\* lines 96-149: the start and end timestamps of the first i records of a
\* walk, and current_ts after them
RECURSIVE WalkTimes(_, _, _, _)
WalkTimes(path, start_ts, d, i) ==
    IF i = 0 THEN [starts |-> << >>, ends |-> << >>, current_ts |-> start_ts]
    ELSE LET before          == WalkTimes(path, start_ts, d, i - 1)
             status_start_ts ==
                 IF i = 1 THEN before.current_ts
                 ELSE PlusDays(before.current_ts, Pick(d.pace, DelayRange(path[i])))
             status_end_ts   == StatusEndTs(path, i, status_start_ts, d)
         IN  [starts     |-> Append(before.starts, status_start_ts),
              ends       |-> Append(before.ends, status_end_ts),
              current_ts |-> IF i < Len(path) THEN status_end_ts
                             ELSE before.current_ts]

\* f"STAT-{case_id.split('-')[1]}-{case_id.split('-')[2]}-{i+1:02d}"
StatusId(case_id, i) == <<"STAT", case_id[2], case_id[3], i>>

\* lines 123-131
StatusReason(case, status, d) ==
    IF status = "PA_DENIED" THEN d.denial
    ELSE IF status = "ABANDONED" THEN case["closure_reason"]
    ELSE None

\* lines 80-149: the records of the walk of one merged case row
Walk(case, d, created_at) ==
    LET path     == Path(case, d)
        start_ts == IF case["inquiry_ts"] # NaT THEN case["inquiry_ts"]
                    ELSE case["enrolled_ts"]
        times    == WalkTimes(path, start_ts, d, Len(path))
    IN  [i \in 1..Len(path) |->
            [ status_id       |-> StatusId(case["case_id"], i),
              case_id         |-> case["case_id"],
              enrollment_id   |-> case["enrollment_id"],
              status_start_ts |-> times.starts[i],
              status_start_month |-> format_month_partition(times.starts[i]),
              status_end_ts   |-> times.ends[i],
              status          |-> path[i],
              status_reason   |-> StatusReason(case, path[i], d),
              created_at      |-> created_at ]]

\* lines 80-155: the walks of the merged rows, one after the other
RECURSIVE StatusRows(_, _, _, _)
StatusRows(merged, draws, created_at, k) ==
    IF k > Len(merged) THEN << >>
    ELSE Walk(merged[k], draws[k], created_at)
         \o StatusRows(merged, draws, created_at, k + 1)

\* the draws of the loop over the merged rows
RECURSIVE StatusLoopDraws(_, _)
StatusLoopDraws(merged, k) ==
    IF k > Len(merged) THEN { << >> }
    ELSE { <<d>> \o rest : d \in WalkDraws(merged[k]),
                           rest \in StatusLoopDraws(merged, k + 1) }

status_date_columns == <<"status_start_ts", "status_end_ts">>
status_nullable_columns == <<"status_end_ts", "status_reason">>

\* generate_status_history(cases_df, enrollments_df, config) at time t: the
\* table it returns when its loop draws `draws` and the injector draws d
generate_status_history(cases, enrollments, cfg, t, draws, d) ==
    InjectWith(StatusRows(Merge(cases, enrollments, 1), draws, t, 1),
               cfg.data_quality, status_date_columns, status_nullable_columns,
               t, d)

\* lines 74-78 raise KeyError when a table has no enrollment_id column, as
\* the table pd.DataFrame([]) of a generator that built no row
MergeRaises(cases, enrollments) ==
    \/ "enrollment_id" \notin Columns(cases)
    \/ {"enrollment_id", "enrolled_ts", "inquiry_ts"} \ Columns(enrollments) # {}

\* generate_data.main, step 3 (lines 81-83)
GenerateStatusHistory ==
    /\ pc = "status_history"
    /\ ~ MergeRaises(cases_df, enrollments_df)
    /\ LET merged == Merge(cases_df, enrollments_df, 1)
       IN  \E draws \in StatusLoopDraws(merged, 1) :
             \E d \in AlignedInjectDraws(StatusRows(merged, draws, gen_now, 1),
                                         config.data_quality, status_date_columns,
                                         status_nullable_columns) :
                /\ status_history_df' =
                      generate_status_history(cases_df, enrollments_df, config,
                                              gen_now, draws, d)
                /\ built' = StatusRows(merged, draws, gen_now, 1)
    /\ output' = [output EXCEPT !["psp_status_history"] =
                                    ParquetFile(status_history_df')]
    /\ pc' = "shipments"
    /\ UNCHANGED <<config, gen_now, enrollments_df, cases_df, shipments_df, claims_df>>
    /\ UNCHANGED <<bronzeVars, injVars, shipped_enrollments>>

\* generate_data.main, step 3, when the merge raises: the run ends there
StatusHistoryKeyError ==
    /\ pc = "status_history"
    /\ MergeRaises(cases_df, enrollments_df)
    /\ pc' = "KeyError"
    /\ UNCHANGED <<config, gen_now, enrollments_df, cases_df, status_history_df,
                   shipments_df, claims_df, built, output>>
    /\ UNCHANGED <<bronzeVars, injVars, shipped_enrollments>>

\* --- generate_status_history called on its own -----------------------------

\* data_quality sections of these runs, rates in 1/RateDen: injection off,
\* or one of the duplicate, null and future-date stages on
StatusDataQuality ==
    { [inject_issues |-> r # <<0, 0, 0>>, duplicate_rate |-> r[1],
       null_rate_optional |-> r[2], future_date_rate |-> r[3],
       nullable_fields |-> <<"inquiry_ts">>] :
        r \in { <<0, 0, 0>>, <<60, 0, 0>>, <<0, 120, 0>>, <<0, 0, 120>> } }

StatusConfigs ==
    [ project      : { [random_seed |-> 42] },
      active_scale : {"test"},
      scales       : { [s \in {"test"} |-> TestScale(n)] : n \in 0..MaxStatusCases },
      multipliers  : { Multipliers },
      funnel_rates : { FunnelRates(1000) },
      timing       : { Timing },
      data_quality : StatusDataQuality ]

\* the enrollments of these runs: built on the first day, all with an
\* inquiry or all without; with the duplicate stage on, also with the first
\* row appended once more
StatusEnrollments(cfg, t) ==
    LET n     == ScaleConfig(cfg).enrollments
        tables == { EnrollmentRows(cfg, [k \in 1..n |->
                        [FirstDayDraw EXCEPT !.has_inquiry = h]], t) : h \in BOOLEAN }
    IN  tables \cup
        (IF cfg.data_quality.duplicate_rate > 0
         THEN { rows \o <<rows[1]>> : rows \in {r \in tables : Len(r) > 0} }
         ELSE {})

\* the draws of generate_cases these runs follow: one per outcome
StatusCaseDraws == { d \in CaseDraws : d.hours = 12 }

\* df.drop_duplicates(): the rows of a table, each kept where it is first
RECURSIVE Distinct(_, _)
Distinct(df, k) ==
    IF k > Len(df) THEN << >>
    ELSE (IF \E j \in 1..(k - 1) : df[j] = df[k] THEN << >> ELSE << df[k] >>)
         \o Distinct(df, k + 1)

\* the cases of these runs: one case per distinct enrollment, as built, and,
\* with the null stage on, the closure_reason of the first nulled
StatusCases(enrollments, cfg, t) ==
    LET distinct == Distinct(enrollments, 1)
        tables   == { CaseRows(distinct, draws, t) :
                        draws \in [1..Len(distinct) -> StatusCaseDraws] }
    IN  tables \cup
        (IF cfg.data_quality.null_rate_optional > 0
         THEN { SetCells(rows, {1}, "closure_reason", None) :
                  rows \in {r \in tables : Len(r) > 0} }
         ELSE {})

InitStatus ==
    /\ config \in StatusConfigs
    /\ gen_now = GenerationTime
    /\ enrollments_df \in StatusEnrollments(config, gen_now)
    /\ cases_df \in StatusCases(enrollments_df, config, gen_now)
    /\ status_history_df = << >>
    /\ shipments_df = << >>
    /\ claims_df = << >>
    /\ built = << >>
    /\ shipped_enrollments = << >>
    /\ output = [s \in Sources |-> NoFile]
    /\ pc = "status_history"
    /\ BronzeIdle
    /\ InjectIdle
    /\ TwinIdle

NextStatus == GenerateStatusHistory \/ StatusHistoryKeyError

SpecStatus == InitStatus /\ [][NextStatus]_vars

StatusDone == pc \notin {"idle", "enrollments", "cases", "status_history", "KeyError"}

\* the positions of `built` where a walk starts, and the last record of the
\* walk that starts at i
WalkStarts == {i \in 1..Len(built) : built[i]["status_id"][4] = 1}
WalkEnd(i) ==
    CHOOSE j \in i..Len(built) :
        /\ \A k \in (i + 1)..j : built[k]["status_id"][4] # 1
        /\ j = Len(built) \/ built[j + 1]["status_id"][4] = 1

\* the statuses of the walk that starts at i, in emission order
StatusesFrom(i) == [k \in 1..(WalkEnd(i) - i + 1) |-> built[i + k - 1]["status"]]

\* the paths C5 allows for a case with this outcome
C5_Successful == <<"INQUIRY", "ENROLLED", "BV_PENDING", "BV_COMPLETE",
                   "PA_PENDING", "PA_APPROVED", "SHIPPED", "ACTIVE">>
C5_Allowed(current_status, closure_reason) ==
    IF current_status = "ACTIVE" THEN { C5_Successful }
    ELSE IF current_status = "CLOSED" /\ closure_reason = "COMPLETED_THERAPY"
         THEN { C5_Successful \o <<"CLOSED">> }
    ELSE IF current_status = "CLOSED"
         THEN { <<"INQUIRY", "ENROLLED", "ABANDONED">>,
                <<"INQUIRY", "ENROLLED", "BV_PENDING", "ABANDONED">>,
                <<"INQUIRY", "ENROLLED", "BV_PENDING", "BV_COMPLETE",
                  "PA_PENDING", "PA_DENIED", "ABANDONED">> }
    ELSE { SubSeq(C5_Successful, 1, k) : k \in 3..6 }

\* C5: for every case walked by generate_status_history, the statuses of
\* its records, in emission order (status_id suffix 01, 02, ...), are exactly
\* the path of its outcome: ACTIVE gives the eight statuses of the successful
\* path; CLOSED with COMPLETED_THERAPY that path followed by CLOSED; CLOSED
\* with another or a null closure_reason one of the three abandoned paths;
\* any other current_status the first k statuses of the successful path,
\* 3 <= k <= 6.  The records are emitted walk after walk, every case is
\* walked, and the injector leaves status and status_id as emitted.
C5_StatusPathPerOutcome ==
    StatusDone =>
        /\ Len(built) > 0 => 1 \in WalkStarts
        /\ \A i \in WalkStarts :
              /\ \A k \in i..WalkEnd(i) :
                    /\ built[k]["status_id"][4] = k - i + 1
                    /\ built[k]["case_id"] = built[i]["case_id"]
              /\ \E c \in 1..Len(cases_df) :
                    /\ cases_df[c]["case_id"] = built[i]["case_id"]
                    /\ StatusesFrom(i) \in C5_Allowed(cases_df[c]["current_status"],
                                                     cases_df[c]["closure_reason"])
        /\ \A c \in 1..Len(cases_df) :
              \E i \in WalkStarts : built[i]["case_id"] = cases_df[c]["case_id"]
        /\ Len(status_history_df) >= Len(built)
        /\ \A k \in 1..Len(built) :
              /\ status_history_df[k]["status"] = built[k]["status"]
              /\ status_history_df[k]["status_id"] = built[k]["status_id"]

\* a closed case whose closure_reason is null walked down abandoned_at_pa
C5_Witness ==
    /\ StatusDone
    /\ Len(cases_df) = 1
    /\ cases_df[1]["current_status"] = "CLOSED"
    /\ cases_df[1]["closure_reason"] = None
    /\ Len(built) = 7
    /\ built[6]["status"] = "PA_DENIED"
    /\ built[7]["status"] = "ABANDONED"
    /\ built[7]["status_id"][4] = 7

\* the days C13 allows between the end of a record and the start of the
\* next, by the status of the next
C13_DelayDays(status) ==
    IF status \in {"BV_COMPLETE", "PA_APPROVED"} THEN 1..10
    ELSE IF status = "SHIPPED" THEN 3..14
    ELSE 1..5

\* C13: within one walk whose first timestamp is not null, as built, the
\* first record starts at the inquiry_ts of the case's enrollment when it
\* has one and at its enrolled_ts otherwise; every record but the last ends
\* 1 to 3 days after it starts; every record but the first starts after the
\* end of the record before it, by 1 to 10 days for BV_COMPLETE and
\* PA_APPROVED, 3 to 14 for SHIPPED and 1 to 5 for any other status.
C13_TimestampsAdvance ==
    StatusDone =>
        \A i \in WalkStarts :
            built[i]["status_start_ts"] # NaT =>
                /\ \E e \in 1..Len(enrollments_df) :
                      /\ enrollments_df[e]["enrollment_id"] = built[i]["enrollment_id"]
                      /\ built[i]["status_start_ts"] =
                            IF enrollments_df[e]["inquiry_ts"] # NaT
                            THEN enrollments_df[e]["inquiry_ts"]
                            ELSE enrollments_df[e]["enrolled_ts"]
                /\ \A last \in {WalkEnd(i)} : \A k \in i..last :
                      /\ k < last =>
                            \E days \in 1..3 :
                                built[k]["status_end_ts"] =
                                    built[k]["status_start_ts"] + days * Day
                      /\ k > i =>
                            \E days \in C13_DelayDays(built[k]["status"]) :
                                built[k]["status_start_ts"] =
                                    built[k - 1]["status_end_ts"] + days * Day

\* a successful walk that starts at enrolled_ts, there being no inquiry,
\* every delay the shortest one
C13_Witness ==
    /\ StatusDone
    /\ Len(built) >= 8
    /\ enrollments_df[1]["inquiry_ts"] = NaT
    /\ built[1]["status_start_ts"] = enrollments_df[1]["enrolled_ts"]
    /\ built[2]["status_start_ts"] = built[1]["status_end_ts"] + Day
    /\ built[7]["status"] = "SHIPPED"
    /\ built[7]["status_start_ts"] = built[6]["status_end_ts"] + 3 * Day
    /\ built[8]["status_end_ts"] = NaT

\* the records of a table with this case_id, as positions
C14_RecordsOf(df, case_id) == { i \in 1..Len(df) : df[i]["case_id"] = case_id }

\* C14 as stated: in the table generate_status_history returns, each case
\* has exactly one record with a null status_end_ts, and it is the last
\* record of the case's path.
C14_OneOpenRecordPerCase ==
    StatusDone =>
        \A c \in ColumnValues(status_history_df, "case_id") :
            LET mine == C14_RecordsOf(status_history_df, c)
                open == { i \in mine : status_history_df[i]["status_end_ts"] = NaT }
            IN  /\ Cardinality(open) = 1
                /\ \A i \in open : \A j \in mine :
                      status_history_df[j]["status_id"][4]
                          <= status_history_df[i]["status_id"][4]

\* C14, amended: in the table generate_status_history builds, before the
\* injector is applied to it, each walk whose first timestamp is not null
\* has exactly one record with a null status_end_ts, the last record of the
\* walk; every earlier record of the walk has a status_end_ts.  When
\* injection is off the table returned is that table.
C14_OneOpenRecordPerWalk ==
    StatusDone =>
        /\ \A i \in WalkStarts :
              built[i]["status_start_ts"] # NaT =>
                  \A last \in {WalkEnd(i)} : \A k \in i..last :
                      (built[k]["status_end_ts"] = NaT) <=> (k = last)
        /\ ~ config.data_quality.inject_issues => status_history_df = built

\* a walk of three records or more, as built, and the null stage has
\* emptied the status_end_ts of its first record in the table returned
C14_Witness ==
    /\ StatusDone
    /\ Len(built) >= 3
    /\ WalkEnd(1) >= 3
    /\ built[1]["status_end_ts"] # NaT
    /\ built[WalkEnd(1)]["status_end_ts"] = NaT
    /\ status_history_df[1]["status_end_ts"] = NaT

\* C15: generate_status_history walks each row of cases_df exactly once:
\* the number of walks is len(cases_df) and no status_id is emitted twice,
\* whatever enrollments_df holds.
C15_EachCaseRowWalkedOnce ==
    StatusDone =>
        /\ Cardinality(WalkStarts) = Len(cases_df)
        /\ \A i \in 1..Len(built) : \A j \in 1..Len(built) :
              built[i]["status_id"] = built[j]["status_id"] => i = j

---------------------------------------------------------------------------
(* Shipments: scripts/generators/shipments.py *)

\* datetime.date(): the day of a datetime.  A date is held as the midnight
\* that starts it, which is also what pd.to_datetime makes of it
DateOf(ts) == IF ts = NaT THEN NaT ELSE ts - (ts % Day)

\* round(num / den): to the nearest integer, a tie to the even one
RoundHalfEven(num, den) ==
    LET q == num \div den
        r == num % den
    IN  IF 2 * r < den THEN q
        ELSE IF 2 * r > den THEN q + 1
        ELSE IF q % 2 = 0 THEN q ELSE q + 1

\* line 42: DataFrame.sample(frac=shipment_rate) returns round(frac * len)
\* rows
NShipped(enrollments, cfg) ==
    RoundHalfEven(Len(enrollments) * cfg.funnel_rates.first_shipment, RateDen)

\* the positions sample() can return: k distinct ones, in any order
SampleOrdersWithReplacement(m, k) == [1..k -> 1..m]

RECURSIVE SampleOrders(_, _)
SampleOrders(m, k) ==
    IF k = 0 THEN { << >> }
    ELSE UNION { { Append(o, i) : i \in (1..m) \ Range(o) } :
                 o \in SampleOrders(m, k - 1) }

\* the draws for one patient (lines 55-125).  factor is random.uniform(0.7,
\* 1.3) in 1/RateDen; the model follows the patients whose shipments all
\* draw the same days_supply and whose other draws are all at the low end
\* (a PAID claim with the largest copay) or all at the high end (DENIED)
ShipmentDraws(cfg) ==
    [ factor      : Sample(700, 1300),
      pace        : {"lo", "hi"},
      days_supply : {r.days_supply : r \in Range(cfg.timing.refill_cadence)} ]

\* lines 87-95
Copay(plan_type, claim_status) ==
    IF claim_status = "PAID" /\ plan_type = "COMMERCIAL" THEN 150 ELSE 0

\* lines 125-126: the next ship date, days_supply plus a refill variance of
\* -3 to 5 days after this one
NextShipDateFourDaysEarly(current_ship_date, p) ==
    current_ship_date + (p.days_supply + Pick(p.pace, <<-4, 5>>)) * Day

NextShipDate(current_ship_date, p) ==
    current_ship_date + (p.days_supply + Pick(p.pace, <<-3, 5>>)) * Day

\* lines 129-132: the test that ends a patient's refills
PastEndNever(current_ship_date, end_date) == FALSE

PastEnd(current_ship_date, end_date) == current_ship_date > end_date

\* lines 67-132: the shipments of one patient from refill_num on, when
\* shipment_counter shipments have been made before
RECURSIVE Refills(_, _, _, _, _, _, _, _)
Refills(enrollment, p, n_shipments, refill_num, current_ship_date, shipment_counter, end_date, created_at) ==
    IF refill_num >= n_shipments THEN << >>
    ELSE LET fill_date    == current_ship_date - Pick(p.pace, <<0, 2>>) * Day
             claim_status == IF p.pace = "lo" THEN "PAID" ELSE "DENIED"
             shipment ==
                 [ shipment_id     |-> <<"SHIP", shipment_counter + 1>>,
                   enrollment_id   |-> enrollment["enrollment_id"],
                   patient_id_hash |-> enrollment["patient_id_hash"],
                   prescription_id |-> <<"RX", enrollment["enrollment_id"][3],
                                         refill_num>>,
                   fill_date       |-> DateOf(fill_date),
                   ship_date       |-> DateOf(current_ship_date),
                   shipment_month  |-> format_month_partition(current_ship_date),
                   ndc_code        |-> enrollment["ndc_code"],
                   product_name    |-> enrollment["program_name"],
                   days_supply     |-> p.days_supply,
                   quantity        |-> IF p.days_supply = 90 THEN 3 ELSE 1,
                   refill_number   |-> refill_num,
                   pharmacy_id     |-> <<"PHARM", Pick(p.pace, <<1, 50>>)>>,
                   claim_status    |-> claim_status,
                   copay_amount    |-> Copay(enrollment["plan_type"], claim_status),
                   created_at      |-> created_at ]
             next == NextShipDate(current_ship_date, p)
         IN  << shipment >> \o
             (IF PastEnd(next, end_date) THEN << >>
              ELSE Refills(enrollment, p, n_shipments, refill_num + 1, next,
                           shipment_counter + 1, end_date, created_at))

Max(a, b) == IF a > b THEN a ELSE b

\* lines 52-132: the shipments of one patient
PatientShipments(enrollment, p, shipment_counter, cfg, created_at) ==
    LET avg_shipments_per_patient == cfg.multipliers.shipments_per_shipped_patient
        n_shipments     == Max(1, (avg_shipments_per_patient * p.factor) \div RateDen)
        first_ship_date == enrollment["enrolled_ts"] + Pick(p.pace, <<5, 15>>) * Day
    IN  Refills(enrollment, p, n_shipments, 0, first_ship_date, shipment_counter,
                ScaleConfig(cfg).end_date, created_at)

\* lines 51-138: the shipments of the sampled patients order[k..], in order
RECURSIVE ShipmentRows(_, _, _, _, _, _, _)
ShipmentRows(enrollments, order, draws, k, shipment_counter, cfg, created_at) ==
    IF k > Len(order) THEN << >>
    ELSE LET rows == PatientShipments(enrollments[order[k]], draws[k],
                                      shipment_counter, cfg, created_at)
         IN  rows \o ShipmentRows(enrollments, order, draws, k + 1,
                                  shipment_counter + Len(rows), cfg, created_at)

shipments_date_columns == <<"fill_date", "ship_date">>
shipments_nullable_columns == <<"copay_amount">>

\* generate_shipments(enrollments_df, config) at time t: the table it
\* returns when sample() returns the rows `order`, the loop draws `draws` and
\* the injector draws d
generate_shipments(enrollments, cfg, t, order, draws, d) ==
    InjectWith(ShipmentRows(enrollments, order, draws, 1, 0, cfg, t),
               cfg.data_quality, shipments_date_columns,
               shipments_nullable_columns, t, d)

\* generate_data.main, step 4 (lines 87-89)
GenerateShipments ==
    /\ pc = "shipments"
    /\ \E order \in SampleOrders(Len(enrollments_df), NShipped(enrollments_df, config)) :
         \E draws \in [1..Len(order) -> ShipmentDraws(config)] :
           LET rows == ShipmentRows(enrollments_df, order, draws, 1, 0, config, gen_now)
           IN  \E d \in NarrowInjectDraws(rows, config.data_quality,
                                          shipments_date_columns,
                                          shipments_nullable_columns) :
                 /\ shipments_df' = generate_shipments(enrollments_df, config,
                                                       gen_now, order, draws, d)
                 /\ built' = rows
                 /\ shipped_enrollments' =
                        [k \in 1..Len(order) |-> enrollments_df[order[k]]]
    /\ output' = [output EXCEPT !["specialty_pharmacy_shipments"] =
                                    ParquetFile(shipments_df')]
    /\ pc' = "claims"
    /\ UNCHANGED <<config, gen_now, enrollments_df, cases_df, status_history_df,
                   claims_df>>
    /\ UNCHANGED <<bronzeVars, injVars>>

\* --- generate_shipments called on its own, followed patient by patient ----

\* data_quality of these runs: injection off, duplicates, future dates
ShipmentsDataQuality ==
    { [inject_issues |-> r # <<0, 0, 0>>, duplicate_rate |-> r[1],
       null_rate_optional |-> r[2], future_date_rate |-> r[3],
       nullable_fields |-> <<"inquiry_ts">>] :
        r \in { <<0, 0, 0>>, <<500, 0, 0>>, <<0, 0, 500>> } }

\* timing.refill_cadence of these runs: a days_supply of 4 or 30 days, or
\* one of 3 days
ShipmentsTimings ==
    { [refill_cadence |-> << [days_supply |-> 4], [days_supply |-> 30] >>],
      [refill_cadence |-> << [days_supply |-> 3] >>] }

ShipmentsConfigs ==
    [ project      : { [random_seed |-> 42] },
      active_scale : {"test"},
      scales       : { [s \in {"test"} |-> TestScale(n)] : n \in 0..MaxShipEnrollments },
      multipliers  : { [Multipliers EXCEPT !.shipments_per_shipped_patient = 3] },
      funnel_rates : { FunnelRates(500), FunnelRates(1000) },
      timing       : ShipmentsTimings,
      data_quality : ShipmentsDataQuality ]

\* the enrollments of these runs: each on the first day of the period, a
\* week before its end or on its last day
ShipmentsEnrollmentDraws ==
    { [FirstDayDraw EXCEPT !.random_days = days] : days \in {0, 358, 365} }

ShipmentsEnrollments(cfg, t) ==
    { EnrollmentRows(cfg, e, t) :
        e \in [1..ScaleConfig(cfg).enrollments -> ShipmentsEnrollmentDraws] }

InitShipments ==
    /\ config \in ShipmentsConfigs
    /\ gen_now = GenerationTime
    /\ enrollments_df \in ShipmentsEnrollments(config, gen_now)
    /\ cases_df = << >>
    /\ status_history_df = << >>
    /\ shipments_df = << >>
    /\ claims_df = << >>
    /\ built = << >>
    /\ shipped_enrollments = << >>
    /\ output = [s \in Sources |-> NoFile]
    /\ pc = "shipments"
    /\ BronzeIdle
    /\ InjectIdle
    /\ TwinIdle

NextShipments == GenerateShipments

SpecShipments == InitShipments /\ [][NextShipments]_vars

\* generate_shipments has returned
ShipmentsDone == pc = "claims"

\* the rows of a table with this enrollment_id, as positions
RowsOf(df, enrollment_id) ==
    { i \in 1..Len(df) : df[i]["enrollment_id"] = enrollment_id }

\* C11: generate_shipments makes shipments for the enrollment rows sample()
\* drew without replacement by the fraction funnel_rates.first_shipment and
\* for no others: every shipment row's enrollment_id is that of a sampled
\* row, and every sampled row has a shipment row with refill_number 0,
\* whenever its first ship date falls.
C11_ShipmentsForSampledRowsOnly ==
    ShipmentsDone =>
        /\ Len(shipped_enrollments) = NShipped(enrollments_df, config)
        /\ \A k \in 1..Len(shipped_enrollments) :
              /\ shipped_enrollments[k] \in Range(enrollments_df)
              /\ \A j \in 1..Len(shipped_enrollments) :
                    shipped_enrollments[j] = shipped_enrollments[k] => j = k
              /\ \A df \in {built, shipments_df} :
                    \E i \in RowsOf(df, shipped_enrollments[k]["enrollment_id"]) :
                        df[i]["refill_number"] = 0
        /\ \A df \in {built, shipments_df} :
              \A i \in 1..Len(df) :
                  df[i]["enrollment_id"] \in ColumnValues(shipped_enrollments, "enrollment_id")

\* one of two enrollments sampled, its first ship date after end_date
C11_Witness ==
    /\ ShipmentsDone
    /\ Len(enrollments_df) = 2
    /\ Len(shipped_enrollments) = 1
    /\ Len(built) = 1
    /\ built[1]["refill_number"] = 0
    /\ built[1]["ship_date"] > ScaleConfig(config).end_date
    /\ Len(shipments_df) >= 1

\* C16 as stated: no shipment row is built with a ship_date later than the
\* end_date of the active scale.
C16_NoShipDateAfterEnd ==
    ShipmentsDone =>
        \A i \in 1..Len(built) :
            built[i]["ship_date"] <= ScaleConfig(config).end_date

\* C16, amended: generate_shipments ends a patient's refills once the next
\* ship date has gone past the end_date of the active scale, so no shipment
\* row with refill_number 1 or more is built with a ship_date later than
\* end_date; the first shipment of a patient (refill_number 0) is built
\* without that test and ships 5 to 15 days after enrolled_ts.
C16_NoRefillShipDateAfterEnd ==
    ShipmentsDone =>
        \A i \in 1..Len(built) :
            \/ built[i]["ship_date"] <= ScaleConfig(config).end_date
            \/ /\ built[i]["refill_number"] = 0
               /\ \E e \in Range(shipped_enrollments) :
                     /\ e["enrollment_id"] = built[i]["enrollment_id"]
                     /\ \E days \in 5..15 :
                           built[i]["ship_date"] = DateOf(e["enrolled_ts"] + days * Day)

\* two patients: the first shipment of one is after end_date, a refill of
\* the other ships on end_date itself
C16_Witness ==
    /\ ShipmentsDone
    /\ \E i \in 1..Len(built) :
          /\ built[i]["refill_number"] = 0
          /\ built[i]["ship_date"] > ScaleConfig(config).end_date
    /\ \E i \in 1..Len(built) :
          /\ built[i]["refill_number"] >= 1
          /\ built[i]["ship_date"] = ScaleConfig(config).end_date

\* C17: within the shipments built for one sampled enrollment row,
\* refill_number counts 0, 1, 2, ... in emission order; when every
\* configured days_supply is at least 4, a later shipment has a strictly
\* later ship_date than an earlier one; fill_date is 0 to 2 days before
\* ship_date.
C17_RefillsInOrder ==
    ShipmentsDone =>
        \A i \in 1..Len(built) :
            LET mine == RowsOf(built, built[i]["enrollment_id"])
            IN  /\ built[i]["refill_number"] = Cardinality({j \in mine : j < i})
                /\ \E days \in 0..2 :
                      built[i]["fill_date"] = built[i]["ship_date"] - days * Day
                /\ (\A r \in Range(config.timing.refill_cadence) : r.days_supply >= 4)
                      => \A j \in mine : j < i => built[j]["ship_date"] < built[i]["ship_date"]

\* three shipments of one patient with a days_supply of 4 and every refill
\* 3 days early: one day apart
C17_Witness ==
    /\ ShipmentsDone
    /\ Len(built) >= 3
    /\ built[1]["enrollment_id"] = built[3]["enrollment_id"]
    /\ built[3]["refill_number"] = 2
    /\ built[1]["days_supply"] = 4
    /\ built[2]["ship_date"] = built[1]["ship_date"] + Day
    /\ built[3]["ship_date"] = built[2]["ship_date"] + Day

---------------------------------------------------------------------------
(* Claims: scripts/generators/claims.py *)

\* lines 38-40: the enrollment rows whose enrollment_id has a shipment
ShippedPatientsAll(enrollments, shipments) == enrollments

ShippedPatients(enrollments, shipments) ==
    SelectSeq(enrollments,
              LAMBDA e : e["enrollment_id"] \in ColumnValues(shipments, "enrollment_id"))

\* lines 45-51: the ship_date values grouped under one enrollment_id, and
\* their min and max (NaT where the left merge of lines 54-58 finds none)
ShipDates(shipments, enrollment_id) ==
    { shipments[i]["ship_date"] :
        i \in { j \in 1..Len(shipments) :
                  shipments[j]["enrollment_id"] = enrollment_id } } \ {NaT}

SetMin(S) == CHOOSE x \in S : \A y \in S : x <= y
SetMax(S) == CHOOSE x \in S : \A y \in S : x >= y

first_ship(shipments, enrollment_id) ==
    LET dates == ShipDates(shipments, enrollment_id)
    IN  IF dates = {} THEN NaT ELSE SetMin(dates)
last_ship(shipments, enrollment_id) ==
    LET dates == ShipDates(shipments, enrollment_id)
    IN  IF dates = {} THEN NaT ELSE SetMax(dates)

\* lines 61-69: np.random.randint(low, high) draws from low..(high - 1)
ClaimsPerPatientRange(cfg) ==
    LET base_claims == cfg.multipliers.claims_per_patient_year
                         * ScaleConfig(cfg).years_of_data
    IN  << (base_claims * 700) \div RateDen, (base_claims * 1300) \div RateDen >>

\* lines 96-97: the range the claim dates of a patient are drawn from
DateRangeWiderBuffer(first, last) ==
    << PlusDays(first, -31), PlusDays(last, 31) >>

DateRange(first, last) ==
    << PlusDays(first, -30), PlusDays(last, 30) >>

\* the kinds of claim the model follows (lines 135-191): type, status and
\* the amounts in cents, None where the amount is 0
ClaimKinds ==
    { [claim_type |-> "PHARMACY", procedure_code |-> None, claim_status |-> "PAID",
       paid_amount |-> 500000, patient_paid |-> 50000],
      [claim_type |-> "MEDICAL", procedure_code |-> "99213", claim_status |-> "PAID",
       paid_amount |-> 10000, patient_paid |-> NaT],
      [claim_type |-> "MEDICAL", procedure_code |-> "J1234", claim_status |-> "DENIED",
       paid_amount |-> NaT, patient_paid |-> NaT] }

\* the draws for one patient: the number of claims, their kind, and whether
\* np.random.uniform(0, date_range_seconds) is at the start or at the end of
\* its half-open range for all of them
ClaimDraws(cfg) ==
    [ n_claims : Sample(ClaimsPerPatientRange(cfg)[1], ClaimsPerPatientRange(cfg)[2]),
      offset   : {"start", "end"},
      kind     : ClaimKinds ]

\* lines 96-105: one claim date of a patient
ClaimDateRaw(first, last, offset) ==
    LET start_range == DateRange(first, last)[1]
        end_range   == DateRange(first, last)[2]
        date_range_seconds == end_range - start_range
    IN  IF first = NaT THEN NaT
        ELSE start_range + (IF offset = "start" THEN 0 ELSE date_range_seconds - 1)

\* lines 88-207: the claims of one patient, claim_counter claims made before
PatientClaims(patient, shipments, c, claim_counter, created_at) ==
    LET first == first_ship(shipments, patient["enrollment_id"])
        last  == last_ship(shipments, patient["enrollment_id"])
    IN  [ j \in 1..c.n_claims |->
            [ claim_id        |-> <<"CLM", claim_counter + j>>,
              enrollment_id   |-> patient["enrollment_id"],
              patient_id_hash |-> patient["patient_id_hash"],
              claim_date      |-> DateOf(ClaimDateRaw(first, last, c.offset)),
              claim_month     |-> format_month_partition(ClaimDateRaw(first, last, c.offset)),
              claim_type      |-> c.kind.claim_type,
              procedure_code  |-> c.kind.procedure_code,
              ndc_code        |-> IF c.kind.claim_type = "MEDICAL" THEN None
                                  ELSE patient["ndc_code"],
              payer_id        |-> patient["payer_id"],
              provider_npi    |-> patient["prescriber_npi"],
              claim_status    |-> c.kind.claim_status,
              paid_amount     |-> c.kind.paid_amount,
              patient_paid    |-> c.kind.patient_paid,
              created_at      |-> created_at ] ]

\* lines 88-207: the claims of the patients k.., in the order of the table
RECURSIVE ClaimRows(_, _, _, _, _, _)
ClaimRows(patients, shipments, draws, k, claim_counter, created_at) ==
    IF k > Len(patients) THEN << >>
    ELSE PatientClaims(patients[k], shipments, draws[k], claim_counter, created_at)
         \o ClaimRows(patients, shipments, draws, k + 1,
                      claim_counter + draws[k].n_claims, created_at)

claims_date_columns == <<"claim_date">>
claims_nullable_columns == <<"procedure_code", "ndc_code", "paid_amount", "patient_paid">>

\* generate_claims(enrollments_df, shipments_df, config) at time t: the
\* table it returns when its loop draws `draws` and the injector draws d
generate_claims(enrollments, shipments, cfg, t, draws, d) ==
    InjectWith(ClaimRows(ShippedPatients(enrollments, shipments), shipments,
                         draws, 1, 0, t),
               cfg.data_quality, claims_date_columns, claims_nullable_columns, t, d)

\* lines 38-39 raise KeyError when a table has no enrollment_id column
ClaimsRaises(enrollments, shipments) ==
    \/ "enrollment_id" \notin Columns(enrollments)
    \/ "enrollment_id" \notin Columns(shipments)

\* generate_data.main, step 5 (lines 93-95)
GenerateClaims ==
    /\ pc = "claims"
    /\ ~ ClaimsRaises(enrollments_df, shipments_df)
    /\ LET patients == ShippedPatients(enrollments_df, shipments_df)
       IN  \E draws \in [1..Len(patients) -> ClaimDraws(config)] :
             LET rows == ClaimRows(patients, shipments_df, draws, 1, 0, gen_now)
             IN  \E d \in NarrowInjectDraws(rows, config.data_quality,
                                            claims_date_columns,
                                            claims_nullable_columns) :
                   /\ claims_df' = generate_claims(enrollments_df, shipments_df,
                                                   config, gen_now, draws, d)
                   /\ built' = rows
    /\ output' = [output EXCEPT !["claims"] = ParquetFile(claims_df')]
    /\ pc' = "done"
    /\ UNCHANGED <<config, gen_now, enrollments_df, cases_df, status_history_df,
                   shipments_df>>
    /\ UNCHANGED <<bronzeVars, injVars, shipped_enrollments>>

\* generate_data.main, step 5, when generate_claims raises: the run ends there
ClaimsKeyError ==
    /\ pc = "claims"
    /\ ClaimsRaises(enrollments_df, shipments_df)
    /\ pc' = "KeyError"
    /\ UNCHANGED <<config, gen_now, enrollments_df, cases_df, status_history_df,
                   shipments_df, claims_df, built, output>>
    /\ UNCHANGED <<bronzeVars, injVars, shipped_enrollments>>

\* --- generate_shipments and generate_claims called on their own ------------

ClaimsDataQuality ==
    { [inject_issues |-> r # <<0, 0, 0>>, duplicate_rate |-> r[1],
       null_rate_optional |-> r[2], future_date_rate |-> r[3],
       nullable_fields |-> <<"inquiry_ts">>] :
        r \in { <<0, 0, 0>>, <<500, 0, 0>>, <<0, 500, 0>>, <<0, 0, 500>> } }

ClaimsConfigs ==
    [ project      : { [random_seed |-> 42] },
      active_scale : {"test"},
      scales       : { [s \in {"test"} |-> TestScale(n)] : n \in 0..MaxPatients },
      multipliers  : { Multipliers },
      funnel_rates : { FunnelRates(500), FunnelRates(1000) },
      timing       : { Timing },
      data_quality : ClaimsDataQuality ]

\* the enrollments of these runs: all on the first day of the period or all
\* on its last day
LastDayDraw ==
    [FirstDayDraw EXCEPT !.random_days = 365, !.plan_type = "CASH_PAY"]

ClaimsEnrollments(cfg, t) ==
    { EnrollmentRows(cfg, [k \in 1..ScaleConfig(cfg).enrollments |-> e], t) :
        e \in {FirstDayDraw, LastDayDraw} }

InitClaims ==
    /\ config \in ClaimsConfigs
    /\ gen_now = GenerationTime
    /\ enrollments_df \in ClaimsEnrollments(config, gen_now)
    /\ cases_df = << >>
    /\ status_history_df = << >>
    /\ shipments_df = << >>
    /\ claims_df = << >>
    /\ built = << >>
    /\ shipped_enrollments = << >>
    /\ output = [s \in Sources |-> NoFile]
    /\ pc = "shipments"
    /\ BronzeIdle
    /\ InjectIdle
    /\ TwinIdle

NextClaims == GenerateShipments \/ GenerateClaims \/ ClaimsKeyError

SpecClaims == InitClaims /\ [][NextClaims]_vars

ClaimsDone == pc = "done"

\* the ship_date values of the shipments with this enrollment_id
C6_ShipDatesOf(enrollment_id) ==
    { shipments_df[i]["ship_date"] :
        i \in { j \in 1..Len(shipments_df) :
                  shipments_df[j]["enrollment_id"] = enrollment_id } }

\* C6 as stated: every claim row built by generate_claims has a claim date
\* not earlier than the earliest and not later than the latest ship_date
\* among the shipments with its enrollment_id.
C6_ClaimDateWithinShipments ==
    ClaimsDone =>
        \A k \in 1..Len(built) :
            LET dates == C6_ShipDatesOf(built[k]["enrollment_id"])
            IN  /\ dates # {}
                /\ \E x \in dates : x <= built[k]["claim_date"]
                /\ \E x \in dates : built[k]["claim_date"] <= x

\* C6, amended: every claim row built by generate_claims has a claim date
\* not earlier than the day that lies 30 days before the earliest ship_date
\* and not later than the day that lies 30 days after the latest ship_date
\* among the shipments with its enrollment_id.
C6_ClaimDateWithinBufferedShipments ==
    ClaimsDone =>
        \A k \in 1..Len(built) :
            LET dates == C6_ShipDatesOf(built[k]["enrollment_id"])
            IN  /\ dates # {}
                /\ \E x \in dates :
                      x - 30 * Day - ((x - 30 * Day) % Day) <= built[k]["claim_date"]
                /\ \E x \in dates : built[k]["claim_date"] <= x + 30 * Day

\* a claim dated 30 days before the only shipment of its patient
C6_Witness ==
    /\ ClaimsDone
    /\ Len(built) > 0
    /\ Len(shipments_df) = 1
    /\ shipments_df[1]["enrollment_id"] = built[1]["enrollment_id"]
    /\ built[1]["claim_date"] = shipments_df[1]["ship_date"] - 30 * Day

---------------------------------------------------------------------------
(* The orchestrator: scripts/generate_data.py, main *)

\* the configurations of a whole run: phase 1 enabled or not (line 50)
MainConfigs ==
    [ project      : { [random_seed |-> 42] },
      active_scale : {"test"},
      scales       : { [s \in {"test"} |-> TestScale(n)] : n \in 0..MaxMainEnrollments },
      multipliers  : { Multipliers },
      funnel_rates : { FunnelRates(500), FunnelRates(1000) },
      timing       : { Timing },
      data_quality : ClaimsDataQuality,
      phases       : { [phase1 |-> [enabled |-> e]] : e \in BOOLEAN } ]

\* the draws of a whole run the model follows: every row of a table draws
\* the same, and the injector draws at the same end in every table
MainDraws ==
    [ enrollment : {FirstDayDraw, LastDayDraw},
      case       : StatusCaseDraws,
      walk       : [ path_choice : {"abandoned_early", "abandoned_at_pa"},
                     hold_len : {4}, pace : {"lo"}, denial : {"COVERAGE_ISSUE"} ],
      shipment   : { [factor |-> 1300, pace |-> "lo", days_supply |-> 30],
                     [factor |-> 700, pace |-> "hi", days_supply |-> 90] },
      claim      : [ n_claims : {1}, offset : {"start", "end"},
                     kind : {k \in ClaimKinds : k.claim_status = "PAID"} ],
      last       : BOOLEAN,
      days       : Sample(FutureDaysMin, FutureDaysMax) ]

\* the injector's draws in a whole run
MainInject(rows, cfg, date_columns, nullable_columns, x) ==
    EndInjectDraw(rows, cfg.data_quality, date_columns, nullable_columns,
                  x.last, x.days)

\* line 69
MainEnrollments(cfg, t, x) ==
    LET draws == [k \in 1..ScaleConfig(cfg).enrollments |-> x.enrollment]
    IN  generate_enrollments(cfg, t, draws,
            MainInject(EnrollmentRows(cfg, draws, t), cfg, enrollments_date_columns,
                       cfg.data_quality.nullable_fields, x))

\* line 75
MainCases(e, cfg, t, x) ==
    LET draws == [k \in 1..Len(e) |-> x.case]
    IN  generate_cases(e, cfg, t, draws,
            MainInject(CaseRows(e, draws, t), cfg, cases_date_columns,
                       cases_nullable_columns, x))

\* line 81
MainStatusHistory(c, e, cfg, t, x) ==
    LET draws == [k \in 1..Len(Merge(c, e, 1)) |-> x.walk]
    IN  generate_status_history(c, e, cfg, t, draws,
            MainInject(StatusRows(Merge(c, e, 1), draws, t, 1), cfg,
                       status_date_columns, status_nullable_columns, x))

\* line 87
MainShipments(e, cfg, t, x, order) ==
    LET draws == [k \in 1..Len(order) |-> x.shipment]
    IN  generate_shipments(e, cfg, t, order, draws,
            MainInject(ShipmentRows(e, order, draws, 1, 0, cfg, t), cfg,
                       shipments_date_columns, shipments_nullable_columns, x))

\* line 93
MainClaims(e, h, cfg, t, x) ==
    LET draws == [k \in 1..Len(ShippedPatients(e, h)) |-> x.claim]
    IN  generate_claims(e, h, cfg, t, draws,
            MainInject(ClaimRows(ShippedPatients(e, h), h, draws, 1, 0, t), cfg,
                       claims_date_columns, claims_nullable_columns, x))

\* the files main has written when its tables are these (lines 71-95)
Saved(e, c, s, h, l, upto) ==
    [src \in Sources |->
        CASE src = sources[1] /\ upto >= 1 -> ParquetFile(e)
          [] src = sources[2] /\ upto >= 2 -> ParquetFile(c)
          [] src = sources[3] /\ upto >= 3 -> ParquetFile(s)
          [] src = sources[4] /\ upto >= 4 -> ParquetFile(h)
          [] src = sources[5] /\ upto >= 5 -> ParquetFile(l)
          [] OTHER -> NoFile]

InitMain ==
    /\ config \in MainConfigs
    /\ gen_now = GenerationTime
    /\ enrollments_df = << >>
    /\ cases_df = << >>
    /\ status_history_df = << >>
    /\ shipments_df = << >>
    /\ claims_df = << >>
    /\ built = << >>
    /\ shipped_enrollments = << >>
    /\ output = [s \in Sources |-> NoFile]
    /\ pc = "main"
    /\ BronzeIdle
    /\ InjectIdle
    /\ TwinIdle

\* main(), lines 21-96, with phase 1 enabled: the generators one after the
\* other, each table saved as soon as it is returned, up to the first
\* KeyError
GenerateData ==
    /\ pc = "main"
    /\ config.phases.phase1.enabled
    /\ \E x \in MainDraws :
       \E e \in { MainEnrollments(config, gen_now, x) } :
       \E c \in { MainCases(e, config, gen_now, x) } :
         IF MergeRaises(c, e)
         THEN /\ enrollments_df' = e
              /\ cases_df' = c
              /\ output' = Saved(e, c, << >>, << >>, << >>, 2)
              /\ pc' = "KeyError"
              /\ UNCHANGED <<status_history_df, shipments_df, claims_df>>
         ELSE
           \E s \in { MainStatusHistory(c, e, config, gen_now, x) } :
           \E order \in SampleOrders(Len(e), NShipped(e, config)) :
           \E h \in { MainShipments(e, config, gen_now, x, order) } :
             IF ClaimsRaises(e, h)
             THEN /\ enrollments_df' = e
                  /\ cases_df' = c
                  /\ status_history_df' = s
                  /\ shipments_df' = h
                  /\ output' = Saved(e, c, s, h, << >>, 4)
                  /\ pc' = "KeyError"
                  /\ UNCHANGED claims_df
             ELSE
               \E l \in { MainClaims(e, h, config, gen_now, x) } :
                  /\ enrollments_df' = e
                  /\ cases_df' = c
                  /\ status_history_df' = s
                  /\ shipments_df' = h
                  /\ claims_df' = l
                  /\ output' = Saved(e, c, s, h, l, 5)
                  /\ pc' = "done"
    /\ built' = << >>
    /\ shipped_enrollments' = << >>
    /\ UNCHANGED <<config, gen_now>>
    /\ UNCHANGED <<bronzeVars, injVars>>

\* main(), lines 50-54: phase 1 disabled, nothing is generated
PhaseDisabled ==
    /\ pc = "main"
    /\ ~ config.phases.phase1.enabled
    /\ pc' = "disabled"
    /\ UNCHANGED <<config, gen_now, enrollments_df, cases_df, status_history_df,
                   shipments_df, claims_df, built, output>>
    /\ UNCHANGED <<bronzeVars, injVars, shipped_enrollments>>

NextMain == GenerateData \/ PhaseDisabled

SpecMain == InitMain /\ [][NextMain]_vars

MainDone == pc = "done"

\* C7: after a complete run of generate_data.main, every case row's and
\* every shipment row's enrollment_id is the enrollment_id of some enrollment
\* row, every status-history row's case_id is the case_id of some case row,
\* and every claim row's enrollment_id is the enrollment_id of some shipment
\* row (hence of some enrollment row).
C7_ReferencesHold ==
    MainDone =>
        /\ \A k \in 1..Len(cases_df) :
              cases_df[k]["enrollment_id"] \in ColumnValues(enrollments_df, "enrollment_id")
        /\ \A k \in 1..Len(shipments_df) :
              shipments_df[k]["enrollment_id"] \in ColumnValues(enrollments_df, "enrollment_id")
        /\ \A k \in 1..Len(status_history_df) :
              status_history_df[k]["case_id"] \in ColumnValues(cases_df, "case_id")
        /\ \A k \in 1..Len(claims_df) :
              /\ claims_df[k]["enrollment_id"] \in ColumnValues(shipments_df, "enrollment_id")
              /\ claims_df[k]["enrollment_id"] \in ColumnValues(enrollments_df, "enrollment_id")

\* a complete run with injected duplicates in which one of two patients has
\* no shipment
C7_Witness ==
    /\ MainDone
    /\ config.data_quality.inject_issues
    /\ config.data_quality.duplicate_rate > 0
    /\ Cardinality(ColumnValues(enrollments_df, "enrollment_id")) = 2
    /\ Cardinality(ColumnValues(shipments_df, "enrollment_id")) = 1
    /\ Len(cases_df) > 2
    /\ Len(status_history_df) > 0
    /\ Len(claims_df) > 0

\* the five tables of a run, each with its month-partition column and the
\* timestamp column the month is taken from
C21_Partitions ==
    { <<enrollments_df, "enrolled_month", "enrolled_ts">>,
      <<cases_df, "opened_month", "case_opened_ts">>,
      <<status_history_df, "status_start_month", "status_start_ts">>,
      <<shipments_df, "shipment_month", "ship_date">>,
      <<claims_df, "claim_month", "claim_date">> }

\* the YYYY-MM of a timestamp
C21_YearMonth(ts) == <<YearOf(ts), MonthOf(ts)>>

\* C21 as stated: in every table a generator returns, the month-partition
\* column of each row is the YYYY-MM of the row's timestamp column, rows
\* touched by the injector included.
C21_MonthIsMonthOfTimestamp ==
    \A p \in C21_Partitions :
        \A i \in 1..Len(p[1]) :
            p[1][i][p[2]] = C21_YearMonth(p[1][i][p[3]])

\* C21, amended: in every table a generator returns, the month-partition
\* column of a row is the YYYY-MM of the row's timestamp column unless the
\* future-date stage of the injector overwrote that timestamp, which it does
\* without touching the month column; with injection off, or with no row for
\* the future-date stage to draw, it holds of every row.
C21_MonthIsMonthOfTimestampUnlessOverwritten ==
    \A p \in C21_Partitions :
        \A i \in 1..Len(p[1]) :
            \/ p[1][i][p[2]] = C21_YearMonth(p[1][i][p[3]])
            \/ /\ config.data_quality.inject_issues
               /\ config.data_quality.future_date_rate > 0
               /\ \E days \in 1..30 : p[1][i][p[3]] = gen_now + days * Day

\* a complete run in which the future-date stage overwrote an enrolled_ts
\* and a claim_date: the months of those rows are still those of the dates
\* the rows were built with, and a claim it left alone has its own month
C21_Witness ==
    /\ MainDone
    /\ \E i \in 1..Len(enrollments_df) :
          /\ enrollments_df[i]["enrolled_ts"] > gen_now
          /\ enrollments_df[i]["enrolled_month"]
                # C21_YearMonth(enrollments_df[i]["enrolled_ts"])
    /\ \E i \in 1..Len(claims_df) :
          /\ claims_df[i]["claim_date"] > gen_now
          /\ claims_df[i]["claim_month"] # C21_YearMonth(claims_df[i]["claim_date"])
    /\ \E i \in 1..Len(claims_df) :
          /\ claims_df[i]["claim_date"] < gen_now
          /\ claims_df[i]["claim_month"] = C21_YearMonth(claims_df[i]["claim_date"])

---------------------------------------------------------------------------
(* Seeding: two calls of one generator with the same config and tables *)

generators == <<"enrollments", "cases", "status_history", "shipments", "claims">>

\* the generators a call seeds before it draws: random.seed and
\* np.random.seed in enrollments.py 55-56, cases.py 29-30, status_history.py
\* 30-31 and shipments.py 30-31; np.random.seed alone in claims.py 31
Seeds(g) == IF g = "claims" THEN {"np.random"} ELSE {"random", "np.random"}

\* the generator each draw of a call comes from: the loops of enrollments,
\* cases, status history and shipments and the day offset of the future-date
\* stage draw from random; the loop of claims, df.sample and
\* np.random.choice of the injector draw from np.random
DrawnFrom(field) ==
    IF field \in {"claim", "last"} THEN "np.random" ELSE "random"

\* the draws that matter to a call of generator g; the others are left at
\* one value
DrawsOf(g) ==
    LET used == CASE g = "enrollments"    -> {"enrollment", "last", "days"}
                  [] g = "cases"          -> {"case", "last", "days"}
                  [] g = "status_history" -> {"walk", "last", "days"}
                  [] g = "shipments"      -> {"shipment", "last", "days"}
                  [] g = "claims"         -> {"claim", "last", "days"}
        fixed == CHOOSE x \in MainDraws : TRUE
    IN  { x \in MainDraws : \A f \in (DOMAIN x) \ used : x[f] = fixed[f] }

\* the draws of a call: a seeded generator returns what its seed determines,
\* the same in every call; one that is not seeded continues from the state
\* the process left it in
CallDraws(g, seeded, left) ==
    [f \in DOMAIN seeded |->
        IF DrawnFrom(f) \in Seeds(g) THEN seeded[f] ELSE left[f]]

\* the table a call of generator g returns at time t with the draws x
Call(g, cfg, e, c, h, t, x, order) ==
    CASE g = "enrollments"    -> MainEnrollments(cfg, t, x)
      [] g = "cases"          -> MainCases(e, cfg, t, x)
      [] g = "status_history" -> MainStatusHistory(c, e, cfg, t, x)
      [] g = "shipments"      -> MainShipments(e, cfg, t, x, order)
      [] g = "claims"         -> MainClaims(e, h, cfg, t, x)

\* the date columns generator g hands to the injector
DateColumnsOf(g) ==
    CASE g = "enrollments"    -> enrollments_date_columns
      [] g = "cases"          -> cases_date_columns
      [] g = "status_history" -> status_date_columns
      [] g = "shipments"      -> shipments_date_columns
      [] g = "claims"         -> claims_date_columns

SeedConfigs ==
    [ project      : { [random_seed |-> 42] },
      active_scale : {"test"},
      scales       : { [s \in {"test"} |-> TestScale(n)] : n \in 1..MaxTwinRows },
      multipliers  : { Multipliers },
      funnel_rates : { FunnelRates(1000) },
      timing       : { Timing },
      data_quality : ClaimsDataQuality ]

\* the tables handed to the calls: enrollments as built on the first day, a
\* closed case for each, and the shipments of all of them
TwinEnrollments(cfg, t) == BuiltEnrollments(cfg, t)
TwinCases(cfg, t) ==
    CaseRows(TwinEnrollments(cfg, t),
             [k \in 1..ScaleConfig(cfg).enrollments |->
                 [hours |-> 12, current_status |-> "CLOSED", days_to_close |-> 180,
                  closure_reason |-> "ABANDONED", case_manager |-> 20]], t)
TwinShipments(cfg, t) ==
    ShipmentRows(TwinEnrollments(cfg, t),
                 [k \in 1..ScaleConfig(cfg).enrollments |-> k],
                 [k \in 1..ScaleConfig(cfg).enrollments |->
                     [factor |-> 1300, pace |-> "lo", days_supply |-> 30]],
                 1, 0, cfg, t)

InitSeed ==
    /\ config \in SeedConfigs
    /\ gen_now = GenerationTime
    /\ enrollments_df = TwinEnrollments(config, gen_now)
    /\ cases_df = TwinCases(config, gen_now)
    /\ status_history_df = << >>
    /\ shipments_df = TwinShipments(config, gen_now)
    /\ claims_df = << >>
    /\ built = << >>
    /\ shipped_enrollments = << >>
    /\ output = [s \in Sources |-> NoFile]
    /\ pc = "twin"
    /\ twin \in [generator : Range(generators),
                 now : {GenerationTime} \X {GenerationTime, GenerationTime + Hour},
                 out : { << << >>, << >> >> }, done : {FALSE}]
    /\ InjectIdle
    /\ BronzeIdle

\* two calls of twin.generator with the same config and the same tables, at
\* the times twin.now, each in a process of its own: left1 and left2 are
\* what the generators of the two processes return when they are not seeded
TwoCalls ==
    /\ ~ twin.done
    /\ pc = "twin"
    /\ LET g == twin.generator
       IN  \E seeded \in DrawsOf(g) :
           \E left1 \in { x \in DrawsOf(g) : x = CallDraws(g, seeded, x) } :
           \E left2 \in { x \in DrawsOf(g) : x = CallDraws(g, seeded, x) } :
           \E order \in SampleOrders(Len(enrollments_df),
                                     NShipped(enrollments_df, config)) :
           \E out1 \in { Call(g, config, enrollments_df, cases_df, shipments_df,
                              twin.now[1], CallDraws(g, seeded, left1), order) } :
           \E out2 \in { Call(g, config, enrollments_df, cases_df, shipments_df,
                              twin.now[2], CallDraws(g, seeded, left2), order) } :
              twin' = [twin EXCEPT !.out = <<out1, out2>>, !.done = TRUE]
    /\ UNCHANGED <<inj, bronzeVars, genVars>>

NextSeed == TwoCalls

SpecSeed == InitSeed /\ [][NextSeed]_vars

\* the columns the tables of the two calls are compared in
C8_Columns(df) == Columns(df) \ {"created_at"}

\* the cells of the table of call r that hold a date the future-date stage
\* writes: datetime.now() of that call plus 1 to 30 days
C8_FutureCells(r) ==
    { <<i, col>> \in (1..Len(twin.out[r])) \X Range(DateColumnsOf(twin.generator)) :
        /\ col \in Columns(twin.out[r])
        /\ \E days \in 1..30 : twin.out[r][i][col] = twin.now[r] + days * Day }

\* C8 as stated: two calls of a generator with the same config and the same
\* input tables return tables equal in every column except created_at.
C8_EqualButCreatedAt ==
    twin.done =>
        /\ Len(twin.out[1]) = Len(twin.out[2])
        /\ \A i \in 1..Len(twin.out[1]) :
              \A col \in C8_Columns(twin.out[1]) :
                  twin.out[1][i][col] = twin.out[2][i][col]

\* What the two calls of C8 do agree on: the tables have the same number of
\* rows and are equal in every column except created_at and except the date
\* cells the future-date stage of the injector overwrote, which hold the
\* datetime.now() of the call plus a drawn number of days; the rows
\* duplicated, the cells nulled and the cells overwritten are the same.
C8_EqualButCreatedAtAndFutureDates ==
    twin.done =>
        /\ Len(twin.out[1]) = Len(twin.out[2])
        /\ C8_FutureCells(1) = C8_FutureCells(2)
        /\ \A i \in 1..Len(twin.out[1]) :
              \A col \in C8_Columns(twin.out[1]) :
                  \/ twin.out[1][i][col] = twin.out[2][i][col]
                  \/ <<i, col>> \in C8_FutureCells(1)

\* two calls of generate_claims an hour apart, with a claim date overwritten
\* in each: random is not seeded by generate_claims, and the day offsets
\* drawn from it differ as well as the clocks
C8_ClaimsOffsetsDiffer ==
    /\ twin.done
    /\ twin.generator = "claims"
    /\ twin.now[1] # twin.now[2]
    /\ C8_FutureCells(1) # {}
    /\ \E c \in C8_FutureCells(1) :
          twin.out[1][c[1]][c[2]] - twin.now[1] # twin.out[2][c[1]][c[2]] - twin.now[2]
    /\ \E i \in 1..Len(twin.out[1]) : <<i, "claim_date">> \notin C8_FutureCells(1)

---------------------------------------------------------------------------
(* Bronze ingestion: pipelines/bronze/ingest_to_bronze.py *)

\* A raw file as generate_data.py leaves it: n rows, told apart by their key
RawTable(n) == [i \in 1..n |-> [row_key |-> i, created_at |-> 0]]

RawFiles == {ParquetFile(RawTable(n)) : n \in 0..MaxRows}

\* Path(raw_path).exists()
Exists(file) == file.exists

\* pd.read_parquet(path) / df.to_parquet(path, index=False): the rows and
\* columns of the table, in order; the index is not stored
read_parquet(file) == file.table
to_parquet(df) == ParquetFile(df)

\* f"{source_name}.parquet"
BronzeSourceName(source_name) == <<source_name, ".parquet">>

\* lines 36-38: the two audit columns, one scalar each for the whole table
AddAuditColumnsDropLast(df, now, source_name) ==
    [i \in 1..(Len(df) - 1) |->
        SetColumn(SetColumn(df[i], "_bronze_loaded_at", now),
                  "_bronze_source", BronzeSourceName(source_name))]

AddAuditColumnsPerRowClock(df, now, source_name) ==
    [i \in 1..Len(df) |->
        SetColumn(SetColumn(df[i], "_bronze_loaded_at", now + i - 1),
                  "_bronze_source", BronzeSourceName(source_name))]

AddAuditColumns(df, now, source_name) ==
    [i \in 1..Len(df) |->
        SetColumn(SetColumn(df[i], "_bronze_loaded_at", now),
                  "_bronze_source", BronzeSourceName(source_name))]

\* lines 56-63: the branch of the verification step
VerifyBranch(verify_count, row_count) ==
    IF verify_count = row_count THEN "passed" ELSE "mismatch"

\* ingest_source_to_bronze(source_name) run on the file system st at a time
\* when datetime.now() (line 37) returns now
IngestResult(st, source_name, now) ==
    IF ~ Exists(st.raw[source_name])
    THEN [st EXCEPT !.verification[source_name] = "not_found"]
    ELSE LET df        == read_parquet(st.raw[source_name])
             row_count == Len(df)
             out       == AddAuditColumns(df, now, source_name)
             written   == to_parquet(out)
             verify_df == read_parquet(written)
         IN  [st EXCEPT !.bronze[source_name] = written,
                        !.verification[source_name] =
                            VerifyBranch(Len(verify_df), row_count)]

\* the loop of main() (lines 84-85) from source number k on; every call
\* reads a later clock value
RECURSIVE MainLoop(_, _, _)
MainLoop(st, k, now) ==
    IF k > Len(sources) THEN st
    ELSE MainLoop(IngestResult(st, sources[k], now), k + 1, now + 1)

FileSystem == [raw |-> raw, bronze |-> bronze, verification |-> verification]

InitBronze ==
    /\ raw \in [Sources -> {NoFile} \cup RawFiles]
    /\ bronze = [s \in Sources |-> NoFile]
    /\ verification = [s \in Sources |-> "none"]
    /\ clock = 1
    /\ runs = 0
    /\ InjectIdle
    /\ TwinIdle
    /\ GenIdle

\* one call of ingest_source_to_bronze(source_name)
IngestSourceToBronze(source_name) ==
    /\ runs < MaxRuns
    /\ LET st == IngestResult(FileSystem, source_name, clock)
       IN  /\ raw' = st.raw
           /\ bronze' = st.bronze
           /\ verification' = st.verification
    /\ clock' = clock + 1
    /\ runs' = runs + 1
    /\ UNCHANGED <<injVars, genVars>>

\* one run of main()
Main ==
    /\ runs < MaxRuns
    /\ LET st == MainLoop(FileSystem, 1, clock)
       IN  /\ raw' = st.raw
           /\ bronze' = st.bronze
           /\ verification' = st.verification
    /\ clock' = clock + Len(sources)
    /\ runs' = runs + 1
    /\ UNCHANGED <<injVars, genVars>>

NextBronze ==
    \/ \E s \in Sources : IngestSourceToBronze(s)
    \/ Main

SpecBronze == InitBronze /\ [][NextBronze]_vars

---------------------------------------------------------------------------
(* Claims about the bronze ingestion *)

AuditColumns == {"_bronze_loaded_at", "_bronze_source"}

\* the sources whose ingestion has run to its verification step
Verified(s) == verification[s] \in {"passed", "mismatch"}

\* C1: for every source whose raw file exists, once
\* ingest_source_to_bronze(source) has finished, the bronze file holds
\* exactly as many rows as the raw file and the verification took the
\* 'passed' branch, never the 'mismatch' branch.
C1_RowCountVerified ==
    \A s \in Sources :
        (Exists(raw[s]) /\ verification[s] # "none") =>
            /\ Exists(bronze[s])
            /\ Len(bronze[s].table) = Len(raw[s].table)
            /\ verification[s] = "passed"

C1_Witness ==
    \E s \in Sources :
        /\ Exists(raw[s]) /\ Len(raw[s].table) >= 2
        /\ verification[s] = "passed"
        /\ Len(bronze[s].table) = Len(raw[s].table)

\* the bronze table of s is the raw table of s, every raw column and value
\* kept and in the same row order, plus the two audit columns, with one load
\* timestamp for the whole table and the source's file name on every row
BronzeIsRawPlusAudit(s) ==
    LET b == bronze[s].table
        r == raw[s].table
    IN  /\ Exists(raw[s])
        /\ Len(b) = Len(r)
        /\ \A i \in 1..Len(b) :
              /\ DOMAIN b[i] = (DOMAIN r[i]) \cup AuditColumns
              /\ AuditColumns \cap DOMAIN r[i] = {}
              /\ \A c \in DOMAIN r[i] : b[i][c] = r[i][c]
              /\ b[i]["_bronze_source"] = <<s, ".parquet">>
        /\ \A i, j \in 1..Len(b) :
              b[i]["_bronze_loaded_at"] = b[j]["_bronze_loaded_at"]

\* C2: ingest_source_to_bronze never modifies the raw file, and the bronze
\* table it writes is the raw table, columns, values and row order
\* unchanged, plus exactly the two columns _bronze_loaded_at (one load
\* timestamp on every row of the table) and _bronze_source
\* ('<source_name>.parquet' on every row).
C2_RawKeptBronzeIsRawPlusAudit ==
    [][ /\ raw' = raw
        /\ \A s \in Sources :
              Exists(bronze'[s]) => BronzeIsRawPlusAudit(s)' ]_vars

C2_Witness ==
    \E s \in Sources :
        /\ Exists(bronze[s])
        /\ Len(bronze[s].table) >= 2
        /\ bronze[s].table[1]["row_key"] # bronze[s].table[2]["row_key"]
        /\ bronze[s].table[1]["_bronze_loaded_at"] = clock - 1

\* C3: the bronze copy is append-only and immutable: a row an ingestion run
\* has written stays present and unchanged, with its _bronze_loaded_at,
\* through every later run; a later run can only add rows.
C3_BronzeAppendOnly ==
    [][ \A s \in Sources :
          \A i \in 1..Len(bronze[s].table) :
              /\ Exists(bronze'[s])
              /\ \E j \in 1..Len(bronze'[s].table) :
                    bronze'[s].table[j] = bronze[s].table[i] ]_vars

===========================================================================
